---- MODULE Spec2Model ----
(***************************************************************************)
(* Model of the projection optimizer of                                    *)
(*   src/datafusion/core/src/physical_optimizer/optimize_projections.rs    *)
(*                                                                         *)
(* A physical plan is a tree of records (kind, parameters, children).  A   *)
(* ProjectionOptimizer node is a record (plan, required_columns,           *)
(* schema_mapping, children_nodes).  Column indices are 0-based as in the  *)
(* source; sequences are 1-based, so position i of a schema is s[i + 1].   *)
(***************************************************************************)
EXTENDS Integers, Sequences, FiniteSets, TLC

\* ------------------------------------------------------------------------
\* Small utilities
\* ------------------------------------------------------------------------
Range(s) == {s[i] : i \in DOMAIN s}

\* The elements of a finite set of columns with pairwise distinct indices,
\* as a sequence in ascending index order (Vec::sort_by_key on the index).
RECURSIVE SortByIndex(_)
SortByIndex(S) ==
    IF S = {} THEN <<>>
    ELSE LET m == CHOOSE c \in S : \A d \in S : c.index <= d.index
         IN  <<m>> \o SortByIndex(S \ {m})

\* An empty HashMap<Column, Column>.
EmptyMap == <<>>

\* HashMap built from a set of (key, value) pairs with distinct keys.
MapOfPairs(P) == [k \in {p[1] : p \in P} |-> (CHOOSE p \in P : p[1] = k)[2]]

\* HashMap::get(k).unwrap_or(k)
GetOr(m, k) == IF k \in DOMAIN m THEN m[k] ELSE k

\* A map restricted to some of its keys.
Restrict(mapping, keys) == [k \in DOMAIN mapping \cap keys |-> mapping[k]]

\* ------------------------------------------------------------------------
\* Expressions
\* ------------------------------------------------------------------------
Column(name, index) == [t |-> "col", name |-> name, index |-> index]

Literal == [t |-> "lit"]

BinaryExpr(l, op, r) == [t |-> "bin", op |-> op, l |-> l, r |-> r]

Field(name, type) == [name |-> name, type |-> type]

\* datafusion_physical_expr::utils::collect_columns
RECURSIVE collect_columns(_)
collect_columns(e) ==
    IF e.t = "col" THEN {e}
    ELSE IF e.t = "bin" THEN collect_columns(e.l) \cup collect_columns(e.r)
    ELSE {}

\* Number of occurrences of each column reference in an expression.
RECURSIVE CountRefs(_, _)
CountRefs(e, c) ==
    IF e.t = "col" THEN (IF e = c THEN 1 ELSE 0)
    ELSE IF e.t = "bin" THEN CountRefs(e.l, c) + CountRefs(e.r, c)
    ELSE 0

\* PhysicalExpr::data_type: "ERR" is the Err result (column out of bounds,
\* or operands that cannot be combined).
RECURSIVE data_type(_, _)
data_type(e, schema) ==
    IF e.t = "col" THEN
        IF e.index < Len(schema) THEN schema[e.index + 1].type ELSE "ERR"
    ELSE IF e.t = "lit" THEN "Int32"
    ELSE LET lt == data_type(e.l, schema)
             rt == data_type(e.r, schema)
         IN  IF lt = "ERR" \/ rt = "ERR" \/ lt # rt THEN "ERR"
             ELSE IF e.op = "+" THEN (IF lt = "Int32" THEN "Int32" ELSE "ERR")
             ELSE "Boolean"

\* ------------------------------------------------------------------------
\* Physical plans.  The operators' constructors and schemas belong to the
\* plan crates; the optimizer only calls them.
\* ------------------------------------------------------------------------
None == [some |-> FALSE]

Some(v) == [some |-> TRUE, v |-> v]

\* A constructor that returned Err ("err") or a panic ("panic").  A plan
\* built over a failed plan is that failed plan: the first failure ends the
\* whole pass.
Fail(why) == [kind |-> "Fail", why |-> why, children |-> <<>>]

IsFail(p) == p.kind = "Fail"

FirstFail(children) ==
    children[CHOOSE i \in DOMAIN children :
                 /\ IsFail(children[i])
                 /\ \A j \in DOMAIN children : j < i => ~IsFail(children[j])]

AnyFail(children) == \E i \in DOMAIN children : IsFail(children[i])

PassthroughKinds ==
    {"CoalesceBatchesExec", "CoalescePartitionsExec", "GlobalLimitExec",
     "LocalLimitExec", "FilterExec", "RepartitionExec", "SortExec",
     "SortPreservingMergeExec", "UnionExec", "InterleaveExec",
     "FileSinkExec", "OtherExec"}

JoinKinds ==
    {"HashJoinExec", "NestedLoopJoinExec", "SortMergeJoinExec",
     "SymmetricHashJoinExec"}

ConcatJoinTypes == {"Inner", "Left", "Right", "Full"}

LeftOnlyJoinTypes == {"LeftSemi", "LeftAnti"}

RightOnlyJoinTypes == {"RightSemi", "RightAnti"}

\* WindowAggExec and BoundedWindowAggExec, which the rule treats alike.
WindowKinds == {"WindowAggExec", "BoundedWindowAggExec"}

\* ExecutionPlan::schema
RECURSIVE schema(_)
schema(p) ==
    CASE p.kind = "CsvExec" ->
            IF p.projection.some
            THEN [i \in 1..Len(p.projection.v) |->
                     p.file_schema[p.projection.v[i] + 1]]
            ELSE p.file_schema
      [] p.kind = "ProjectionExec" ->
            LET s == schema(p.children[1])
            IN  [i \in 1..Len(p.expr) |->
                    Field(p.expr[i].alias, data_type(p.expr[i].expr, s))]
      [] p.kind \in PassthroughKinds -> schema(p.children[1])
      [] p.kind = "CrossJoinExec" ->
            schema(p.children[1]) \o schema(p.children[2])
      [] p.kind \in JoinKinds ->
            IF p.join_type \in ConcatJoinTypes
            THEN schema(p.children[1]) \o schema(p.children[2])
            ELSE IF p.join_type \in LeftOnlyJoinTypes
            THEN schema(p.children[1])
            ELSE schema(p.children[2])
      [] p.kind = "AggregateExec" ->
            \* the group-by columns, then one column for each aggregate
            LET s == schema(p.children[1])
            IN  [i \in 1..Len(p.group_expr) |->
                    Field(p.group_expr[i].alias,
                          data_type(p.group_expr[i].expr, s))]
                \o [i \in 1..Len(p.aggr_expr) |->
                       Field(p.aggr_expr[i].name, "Int32")]
      [] p.kind \in WindowKinds ->
            \* the columns of the input, then one column for each window
            \* expression
            schema(p.children[1])
            \o [i \in 1..Len(p.window_expr) |->
                   Field(p.window_expr[i].name, "Int32")]
      [] OTHER -> <<>>

\* Collects all fields of the schema for a given plan in Column form.
collect_columns_in_plan_schema(plan) ==
    LET s == schema(plan) IN {Column(s[i].name, i - 1) : i \in DOMAIN s}

CsvExec(file_schema, projection) ==
    [kind |-> "CsvExec", file_schema |-> file_schema,
     projection |-> projection, children |-> <<>>]

\* ProjectionExec::try_new: the output fields take their type from the
\* expressions, which fails for a column index outside the input schema.
ProjectionExec_try_new(expr, input) ==
    IF IsFail(input) THEN input
    ELSE IF \E i \in DOMAIN expr :
                data_type(expr[i].expr, schema(input)) = "ERR"
    THEN Fail("err")
    ELSE [kind |-> "ProjectionExec", expr |-> expr, children |-> <<input>>]

\* FilterExec::try_new: the predicate must evaluate to a boolean.
FilterExec_try_new(predicate, input) ==
    IF IsFail(input) THEN input
    ELSE IF data_type(predicate, schema(input)) # "Boolean" THEN Fail("err")
    ELSE [kind |-> "FilterExec", predicate |-> predicate,
          children |-> <<input>>]

\* RepartitionExec::try_new (partitioning: hash over expressions or not).
RepartitionExec_try_new(input, partitioning) ==
    IF IsFail(input) THEN input
    ELSE [kind |-> "RepartitionExec", partitioning |-> partitioning,
          children |-> <<input>>]

\* SortExec::new and SortPreservingMergeExec::new keep fetch and the
\* partitioning flag in param.
SortLike_new(kind, expr, input, param) ==
    IF IsFail(input) THEN input
    ELSE [kind |-> kind, expr |-> expr, param |-> param,
          children |-> <<input>>]

\* CoalesceBatchesExec::new, CoalescePartitionsExec::new,
\* GlobalLimitExec::new, LocalLimitExec::new: param holds the batch size or
\* the skip and fetch counts.
Plain_new(kind, input, param) ==
    IF IsFail(input) THEN input
    ELSE [kind |-> kind, param |-> param, children |-> <<input>>]

\* UnionExec::new, InterleaveExec::try_new
Union_new(kind, inputs) ==
    IF AnyFail(inputs) THEN FirstFail(inputs)
    ELSE [kind |-> kind, children |-> inputs]

CrossJoinExec_new(left, right) ==
    IF AnyFail(<<left, right>>) THEN FirstFail(<<left, right>>)
    ELSE [kind |-> "CrossJoinExec", children |-> <<left, right>>]

\* joins::utils::check_join_is_valid: every column of a key pair must be a
\* column (name and index) of its side.
check_join_is_valid(left, right, on) ==
    /\ \A i \in DOMAIN on :
          collect_columns(on[i][1]) \subseteq collect_columns_in_plan_schema(left)
    /\ \A i \in DOMAIN on :
          collect_columns(on[i][2]) \subseteq collect_columns_in_plan_schema(right)

\* HashJoinExec::try_new, SortMergeJoinExec::try_new,
\* SymmetricHashJoinExec::try_new (non-empty, valid key pairs) and
\* NestedLoopJoinExec::try_new (no key pairs).  A join filter is a list of
\* ColumnIndex {index, side}; its expression and intermediate schema are
\* never touched by the optimizer.
Join_try_new(kind, left, right, on, filter, join_type) ==
    IF AnyFail(<<left, right>>) THEN FirstFail(<<left, right>>)
    ELSE IF kind # "NestedLoopJoinExec" /\ on = <<>> THEN Fail("err")
    ELSE IF ~check_join_is_valid(left, right, on) THEN Fail("err")
    ELSE [kind |-> kind, on |-> on, filter |-> filter,
          join_type |-> join_type, children |-> <<left, right>>]

\* AggregateExec::try_new: the output fields of the group-by expressions
\* take their type from the input.  An aggregate expression is a record of
\* its name, its argument expressions, the names of its state fields and
\* whether with_new_expressions can rebuild it; filter_expr holds an
\* optional filter for each aggregate expression, by position.
AggregateExec_try_new(mode, group_expr, aggr_expr, filter_expr, input) ==
    IF IsFail(input) THEN input
    ELSE IF \E i \in DOMAIN group_expr :
                data_type(group_expr[i].expr, schema(input)) = "ERR"
    THEN Fail("err")
    ELSE [kind |-> "AggregateExec", mode |-> mode, group_expr |-> group_expr,
          aggr_expr |-> aggr_expr, filter_expr |-> filter_expr,
          children |-> <<input>>]

\* WindowAggExec::try_new, BoundedWindowAggExec::try_new.  A window
\* expression is a record of its name, its argument expressions and whether
\* with_new_expressions can rebuild it.
Window_try_new(kind, window_expr, input, partition_keys) ==
    IF IsFail(input) THEN input
    ELSE [kind |-> kind, window_expr |-> window_expr,
          partition_keys |-> partition_keys, children |-> <<input>>]

\* ExecutionPlan::with_new_children
with_new_children(p, children) ==
    IF AnyFail(children) THEN FirstFail(children)
    ELSE CASE p.kind = "ProjectionExec" ->
                 ProjectionExec_try_new(p.expr, children[1])
           [] p.kind = "FilterExec" ->
                 FilterExec_try_new(p.predicate, children[1])
           [] p.kind \in JoinKinds ->
                 Join_try_new(p.kind, children[1], children[2], p.on,
                              p.filter, p.join_type)
           [] p.kind = "AggregateExec" ->
                 AggregateExec_try_new(p.mode, p.group_expr, p.aggr_expr,
                                       p.filter_expr, children[1])
           [] p.kind \in WindowKinds ->
                 Window_try_new(p.kind, p.window_expr, children[1],
                                p.partition_keys)
           [] OTHER -> [p EXCEPT !.children = children]

\* ------------------------------------------------------------------------
\* ProjectionOptimizer nodes
\* ------------------------------------------------------------------------
Node(plan, required_columns, schema_mapping, children_nodes) ==
    [plan |-> plan, required_columns |-> required_columns,
     schema_mapping |-> schema_mapping, children_nodes |-> children_nodes]

\* The pass ended in Err or in a panic at this node.
FailNode(why) == Node(Fail(why), {}, EmptyMap, <<>>)

IsFailNode(n) == IsFail(n.plan)

\* Constructs the empty graph according to the plan.
RECURSIVE new_default(_)
new_default(plan) ==
    Node(plan, {}, EmptyMap,
         [i \in DOMAIN plan.children |-> new_default(plan.children[i])])

\* A variant of update_column_index that leaves every index as it is,
\* which ExtendingPassthrough must tell from it.
update_column_index_unchanged(expr, mapping) == expr

\* Given mapping representing the initial and new index values, it updates
\* the indices of columns in the expression.
RECURSIVE update_column_index(_, _)
update_column_index(expr, mapping) ==
    IF expr.t = "col" THEN GetOr(mapping, expr)
    ELSE IF expr.t = "bin"
    THEN BinaryExpr(update_column_index(expr.l, mapping), expr.op,
                    update_column_index(expr.r, mapping))
    ELSE expr

\* Iterates over all columns and returns true if all columns are required.
all_columns_required(requirement_map) ==
    \A k \in DOMAIN requirement_map : requirement_map[k]

\* Compares the required and existing columns in the node.
analyze_requirements(self) ==
    [col \in collect_columns_in_plan_schema(self.plan) |->
        col \in self.required_columns]

\* The projected expressions of an inserted projection: the used columns of
\* a requirement map, sorted by index, each under its own name.
ProjectedExprs(requirement_map) ==
    LET used == SortByIndex({c \in DOMAIN requirement_map : requirement_map[c]})
    IN  [i \in DOMAIN used |-> [expr |-> used[i], alias |-> used[i].name]]

UnusedColumns(requirement_map) ==
    {c \in DOMAIN requirement_map : ~requirement_map[c]}

SkippedColumns(unused_columns, col) ==
    Cardinality({u \in unused_columns : u.index < col.index})

\* The index changes of the columns cols after removal of unused_columns.
NewMapping(cols, unused_columns) ==
    [col \in {c \in cols : SkippedColumns(unused_columns, c) > 0} |->
        Column(col.name, col.index - SkippedColumns(unused_columns, col))]

\* If a node is known to have redundant columns, a projection is inserted
\* to its input.  Returns the inserted projection node and the mapping.
insert_projection(self, requirement_map) ==
    LET inserted_projection ==
            ProjectionExec_try_new(ProjectedExprs(requirement_map),
                                   self.plan.children[1])
    IN  [node |-> Node(inserted_projection,
                       collect_columns_in_plan_schema(inserted_projection),
                       EmptyMap, self.children_nodes),
         mapping |-> NewMapping(self.required_columns,
                                UnusedColumns(requirement_map))]

\* A variant of insert_multi_projection_below_union that prunes the first
\* branch only, which UnionBranchesPrunedAlike must tell from it.
insert_multi_projection_below_union_first(self, requirement_map) ==
    LET inserted_projections ==
            [i \in DOMAIN self.plan.children |->
                ProjectionExec_try_new(
                    IF i = 1 THEN ProjectedExprs(requirement_map)
                    ELSE ProjectedExprs([c \in DOMAIN requirement_map |-> TRUE]),
                    self.plan.children[i])]
    IN  [nodes |-> [i \in DOMAIN inserted_projections |->
                       Node(inserted_projections[i],
                            collect_columns_in_plan_schema(inserted_projections[i]),
                            EmptyMap, <<self.children_nodes[i]>>)],
         mapping |-> NewMapping(self.required_columns,
                                UnusedColumns(requirement_map))]

\* Multi-child version of insert_projection for UnionExec's.
insert_multi_projection_below_union(self, requirement_map) ==
    LET inserted_projections ==
            [i \in DOMAIN self.plan.children |->
                ProjectionExec_try_new(ProjectedExprs(requirement_map),
                                       self.plan.children[i])]
    IN  [nodes |-> [i \in DOMAIN inserted_projections |->
                       Node(inserted_projections[i],
                            collect_columns_in_plan_schema(inserted_projections[i]),
                            EmptyMap, <<self.children_nodes[i]>>)],
         mapping |-> NewMapping(self.required_columns,
                                UnusedColumns(requirement_map))]

\* The branch of the single-child rules in which every column is required:
\* the requirements move to the child (mem::take).
TakeRequirements(self) ==
    [self EXCEPT !.children_nodes[1].required_columns = self.required_columns,
                 !.required_columns = {}]

try_insert_below_coalesce_batches(self) ==
    LET requirement_map == analyze_requirements(self)
    IN  IF all_columns_required(requirement_map) THEN TakeRequirements(self)
        ELSE LET ins == insert_projection(self, requirement_map)
             IN  Node(Plain_new("CoalesceBatchesExec", ins.node.plan,
                                self.plan.param),
                      {}, ins.mapping, <<ins.node>>)

try_insert_below_coalesce_partitions(self) ==
    LET requirement_map == analyze_requirements(self)
    IN  IF all_columns_required(requirement_map) THEN TakeRequirements(self)
        ELSE LET ins == insert_projection(self, requirement_map)
             IN  Node(Plain_new("CoalescePartitionsExec", ins.node.plan,
                                self.plan.param),
                      {}, ins.mapping, <<ins.node>>)

\* The source tests the constant true here, so the requirements always go
\* to the child unchanged.
try_insert_below_global_limit(self) == TakeRequirements(self)

try_insert_below_local_limit(self) ==
    LET requirement_map == analyze_requirements(self)
    IN  IF all_columns_required(requirement_map) THEN TakeRequirements(self)
        ELSE LET ins == insert_projection(self, requirement_map)
             IN  Node(Plain_new("LocalLimitExec", ins.node.plan,
                                self.plan.param),
                      {}, ins.mapping, <<ins.node>>)

try_insert_below_filter(self0) ==
    LET self == [self0 EXCEPT !.required_columns =
                     @ \cup collect_columns(self0.plan.predicate)]
        requirement_map == analyze_requirements(self)
    IN  IF all_columns_required(requirement_map) THEN TakeRequirements(self)
        ELSE LET ins == insert_projection(self, requirement_map)
                 new_predicate ==
                     update_column_index(self.plan.predicate, ins.mapping)
             IN  Node(FilterExec_try_new(new_predicate, ins.node.plan),
                      {}, ins.mapping, <<ins.node>>)

\* The columns of a sequence of expressions.
ColumnsOf(exprs) == UNION {collect_columns(exprs[i]) : i \in DOMAIN exprs}

UpdateAll(exprs, mapping) ==
    [i \in DOMAIN exprs |-> update_column_index(exprs[i], mapping)]

try_insert_below_repartition(self0) ==
    LET partitioning == self0.plan.partitioning
        self == IF partitioning.hash
                THEN [self0 EXCEPT !.required_columns =
                         @ \cup ColumnsOf(partitioning.exprs)]
                ELSE self0
        requirement_map == analyze_requirements(self)
    IN  IF all_columns_required(requirement_map) THEN TakeRequirements(self)
        ELSE LET ins == insert_projection(self, requirement_map)
                 new_partitioning ==
                     IF partitioning.hash
                     THEN [partitioning EXCEPT !.exprs =
                              UpdateAll(partitioning.exprs, ins.mapping)]
                     ELSE partitioning
             IN  Node(RepartitionExec_try_new(ins.node.plan, new_partitioning),
                      {}, ins.mapping, <<ins.node>>)

try_insert_below_sort(self0) ==
    LET self == [self0 EXCEPT !.required_columns =
                     @ \cup ColumnsOf(self0.plan.expr)]
        requirement_map == analyze_requirements(self)
    IN  IF all_columns_required(requirement_map) THEN TakeRequirements(self)
        ELSE LET ins == insert_projection(self, requirement_map)
             IN  Node(SortLike_new("SortExec",
                                   UpdateAll(self.plan.expr, ins.mapping),
                                   ins.node.plan, self.plan.param),
                      {}, ins.mapping, <<ins.node>>)

try_insert_below_sort_preserving_merge(self0) ==
    LET self == [self0 EXCEPT !.required_columns =
                     @ \cup ColumnsOf(self0.plan.expr)]
        requirement_map == analyze_requirements(self)
    IN  IF all_columns_required(requirement_map) THEN TakeRequirements(self)
        ELSE LET ins == insert_projection(self, requirement_map)
             IN  Node(SortLike_new("SortPreservingMergeExec",
                                   UpdateAll(self.plan.expr, ins.mapping),
                                   ins.node.plan, self.plan.param),
                      {}, ins.mapping, <<ins.node>>)

\* try_insert_below_union and try_insert_below_interleave
try_insert_below_union(self) ==
    LET requirement_map == analyze_requirements(self)
    IN  IF all_columns_required(requirement_map)
        THEN [self EXCEPT
                 !.children_nodes =
                     [i \in DOMAIN @ |->
                         [@[i] EXCEPT !.required_columns = self.required_columns]],
                 !.required_columns = {}]
        ELSE LET ins == insert_multi_projection_below_union(self, requirement_map)
             IN  Node(Union_new(self.plan.kind,
                                [i \in DOMAIN ins.nodes |-> ins.nodes[i].plan]),
                      {}, ins.mapping, ins.nodes)

\* ------------------------------------------------------------------------
\* Two-child operators
\* ------------------------------------------------------------------------
ShiftColumn(col, by) == Column(col.name, col.index + by)

\* Compares the columns required from the left/right child and existing
\* columns in the left/right child.  Each column of the two results refers
\* to its own table schema index, not to the join output schema.
analyze_requirements_of_joins(self, left_size) ==
    LET columns_in_schema ==
            collect_columns_in_plan_schema(self.children_nodes[1].plan)
            \cup {ShiftColumn(c, left_size) :
                    c \in collect_columns_in_plan_schema(self.children_nodes[2].plan)}
        left_cols == {c \in columns_in_schema : c.index < left_size}
        right_cols == columns_in_schema \ left_cols
    IN  [left |-> [c \in left_cols |-> c \in self.required_columns],
         right |-> [c \in {ShiftColumn(d, 0 - left_size) : d \in right_cols} |->
                       ShiftColumn(c, left_size) \in self.required_columns]]

\* Single child version of insert_projection for joins.  children_index is
\* 0-based as in the source; indexing children_nodes past its end panics.
insert_projection_below_single_child(self, requirement_map, children_index) ==
    LET Inserted(projected_exprs, inserted_projection) ==
            IF IsFail(inserted_projection)
            THEN [node |-> FailNode(inserted_projection.why), mapping |-> EmptyMap]
            ELSE IF children_index + 1 > Len(self.children_nodes)
            THEN [node |-> FailNode("panic"), mapping |-> EmptyMap]
            ELSE [node |-> Node(inserted_projection,
                                collect_columns_in_plan_schema(inserted_projection),
                                EmptyMap,
                                <<self.children_nodes[children_index + 1]>>),
                  mapping |-> NewMapping({projected_exprs[i].expr :
                                             i \in DOMAIN projected_exprs},
                                         UnusedColumns(requirement_map))]
        Projected(projected_exprs) ==
            Inserted(projected_exprs,
                     ProjectionExec_try_new(projected_exprs,
                                            self.plan.children[children_index + 1]))
    IN  Projected(ProjectedExprs(requirement_map))

\* Multi-child version of insert_projection for joins.
insert_multi_projections_below_join(self, left_size, requirement_map_left, requirement_map_right) ==
    LET original_right == self.children_nodes[2].plan
        Mapped(l, r, new_left_size, kept_right) ==
            [left |-> l.node, right |-> r.node,
             mapping |->
                 [c \in {ShiftColumn(k, left_size) : k \in DOMAIN r.mapping} |->
                     ShiftColumn(r.mapping[ShiftColumn(c, 0 - left_size)],
                                 new_left_size)]
                 @@ [c \in {ShiftColumn(k, left_size) : k \in kept_right} |->
                        Column(c.name, c.index - left_size + new_left_size)]
                 @@ l.mapping]
        Inserted(l, r) ==
            IF IsFailNode(l.node) THEN [left |-> l.node, right |-> l.node,
                                        mapping |-> EmptyMap]
            ELSE IF IsFailNode(r.node) THEN [left |-> r.node, right |-> r.node,
                                             mapping |-> EmptyMap]
            ELSE Mapped(l, r, Len(schema(l.node.plan)),
                        collect_columns_in_plan_schema(original_right)
                            \cap {r.node.plan.expr[i].expr :
                                     i \in DOMAIN r.node.plan.expr})
    IN  Inserted(insert_projection_below_single_child(self, requirement_map_left, 0),
                 insert_projection_below_single_child(self, requirement_map_right, 1))

\* Vec::swap_remove(i) on a two-element list leaves the other element.
SwapRemoved(children_nodes, i) ==
    IF i = 0 THEN <<children_nodes[2]>> ELSE <<children_nodes[1]>>

AllRequired(n) ==
    [n EXCEPT !.required_columns = collect_columns_in_plan_schema(n.plan)]

try_insert_below_cross_join(self) ==
    LET BelowBoth(ins) ==
            Node(CrossJoinExec_new(ins.left.plan, ins.right.plan),
                 {}, ins.mapping, <<ins.left, ins.right>>)
        BelowLeft(ins, right_child) ==
            Node(CrossJoinExec_new(ins.node.plan, right_child.plan),
                 {}, ins.mapping, <<ins.node, right_child>>)
        BelowRight(ins, left_child, left_size) ==
            Node(CrossJoinExec_new(left_child.plan, ins.node.plan),
                 {},
                 [c \in {ShiftColumn(k, left_size) : k \in DOMAIN ins.mapping} |->
                     ShiftColumn(ins.mapping[ShiftColumn(c, 0 - left_size)],
                                 left_size)],
                 <<left_child, ins.node>>)
        Inserted(left_size, analyzed, all_left, all_right) ==
            CASE all_left /\ all_right ->
                   BelowBoth(insert_multi_projections_below_join(
                                 self, left_size, analyzed.left, analyzed.right))
              [] all_left /\ ~all_right ->
                   \* right_child = swap_remove(1)
                   BelowLeft(insert_projection_below_single_child(
                                 [self EXCEPT !.children_nodes = SwapRemoved(@, 1)],
                                 analyzed.left, 0),
                             self.children_nodes[2])
              [] ~all_left /\ all_right ->
                   BelowRight(insert_projection_below_single_child(
                                  self, analyzed.right, 1),
                              self.children_nodes[1], left_size)
              [] OTHER ->
                   [self EXCEPT !.required_columns = {},
                                !.children_nodes =
                                    [i \in DOMAIN @ |-> AllRequired(@[i])]]
        Analyzed(left_size, analyzed) ==
            Inserted(left_size, analyzed, all_columns_required(analyzed.left),
                     all_columns_required(analyzed.right))
        Sized(left_size) ==
            Analyzed(left_size, analyze_requirements_of_joins(self, left_size))
    IN  Sized(Len(schema(self.plan.children[1])))

\* Collects all columns in the join's equivalence and non-equivalence
\* conditions as they are seen at the join output.  filter is an Option of
\* a list of ColumnIndex; a ColumnIndex outside its side's schema panics.
collect_columns_in_join_conditions(on, filter, left_size, join_left_schema, join_right_schema) ==
    LET equivalence_columns ==
            UNION {collect_columns(on[i][1])
                     \cup {ShiftColumn(c, left_size) : c \in collect_columns(on[i][2])} :
                   i \in DOMAIN on}
        ci == IF filter.some THEN filter.v ELSE <<>>
        non_equivalence_columns ==
            {IF ci[i].side = "Left"
             THEN Column(join_left_schema[ci[i].index + 1].name, ci[i].index)
             ELSE Column(join_right_schema[ci[i].index + 1].name,
                         ci[i].index + left_size) : i \in DOMAIN ci}
    IN  equivalence_columns \cup non_equivalence_columns

\* Calculates how many index of the given column decreases because of the
\* removed columns which reside on the left side of that given column.
removed_column_count(requirement_map, column_index) ==
    Cardinality({c \in DOMAIN requirement_map :
                    ~requirement_map[c] /\ c.index < column_index})

RECURSIVE ShiftDown(_, _)
ShiftDown(expr, requirement_map) ==
    IF expr.t = "col"
    THEN Column(expr.name,
                expr.index - removed_column_count(requirement_map, expr.index))
    ELSE IF expr.t = "bin"
    THEN BinaryExpr(ShiftDown(expr.l, requirement_map), expr.op,
                    ShiftDown(expr.r, requirement_map))
    ELSE expr

\* Updates the equivalence conditions of the joins according to the new
\* indices of columns.
update_equivalence_conditions(on, requirement_map_left, requirement_map_right) ==
    [i \in DOMAIN on |-> <<ShiftDown(on[i][1], requirement_map_left),
                           ShiftDown(on[i][2], requirement_map_right)>>]

\* Updates the JoinFilter according to the new indices of columns.
update_non_equivalence_conditions(filter, requirement_map_left, requirement_map_right) ==
    IF ~filter.some THEN filter
    ELSE Some([i \in DOMAIN filter.v |->
                 IF filter.v[i].side = "Left"
                 THEN [index |-> filter.v[i].index
                                   - removed_column_count(requirement_map_left,
                                                          filter.v[i].index),
                       side |-> "Left"]
                 ELSE [index |-> filter.v[i].index
                                   - removed_column_count(requirement_map_right,
                                                          filter.v[i].index),
                       side |-> "Right"]])

UsedColumns(requirement_map) ==
    {c \in DOMAIN requirement_map : requirement_map[c]}

\* The requirements of a join extended with the columns of its conditions.
\* shift_right_only: the required columns of a RightSemi/RightAnti join are
\* moved behind the left columns first (hash join only).  filter_required:
\* the join filter's columns are added (not so for the sort-merge join,
\* which passes None).  A nested-loop join has no key pairs (on is empty).
ExtendedWithJoinConditions(self0, left_size, shift_right_only, filter_required) ==
    [self0 EXCEPT !.required_columns =
        (IF shift_right_only /\ self0.plan.join_type \in RightOnlyJoinTypes
         THEN {ShiftColumn(c, left_size) : c \in self0.required_columns}
         ELSE self0.required_columns)
        \cup collect_columns_in_join_conditions(
                 self0.plan.on,
                 IF filter_required THEN self0.plan.filter ELSE None,
                 left_size,
                 schema(self0.children_nodes[1].plan),
                 schema(self0.children_nodes[2].plan))]

\* A column index of the join filter lies outside the schema of its side:
\* collecting the filter's columns panics.
FilterOutOfBounds(self0, filter_required) ==
    /\ filter_required
    /\ self0.plan.filter.some
    /\ \E i \in DOMAIN self0.plan.filter.v :
          self0.plan.filter.v[i].index >=
              Len(schema(self0.children_nodes[
                      IF self0.plan.filter.v[i].side = "Left" THEN 1 ELSE 2].plan))

\* The branches of the rule shared by the four join kinds, on the join j
\* of the node self with its extended requirements, analyzed per side.
InsertBelowAnalyzedJoin(j, self, left_size, analyzed, all_left, all_right, filter_out_of_bounds) ==
    LET BelowBoth(ins, new_on, new_filter) ==
            Node(Join_try_new(j.kind, ins.left.plan, ins.right.plan,
                              new_on, new_filter, j.join_type),
                 {}, ins.mapping, <<ins.left, ins.right>>)
        BelowLeft(ins, right_child, new_on, new_filter) ==
            Node(Join_try_new(j.kind, ins.node.plan, right_child.plan,
                              new_on, new_filter, j.join_type),
                 {}, ins.mapping, <<ins.node, right_child>>)
        BelowRight(ins, left_child, new_on, new_filter) ==
            Node(Join_try_new(j.kind, left_child.plan, ins.node.plan,
                              new_on, new_filter, j.join_type),
                 {}, ins.mapping, <<left_child, ins.node>>)
        \* self after children_nodes.swap_remove(i)
        rest(i) == [self EXCEPT !.children_nodes = SwapRemoved(@, i)]
    IN  CASE filter_out_of_bounds -> FailNode("panic")
          [] j.join_type \in ConcatJoinTypes /\ ~all_left /\ ~all_right ->
               BelowBoth(insert_multi_projections_below_join(
                             self, left_size, analyzed.left, analyzed.right),
                         update_equivalence_conditions(
                             j.on, analyzed.left, analyzed.right),
                         update_non_equivalence_conditions(
                             j.filter, analyzed.left, analyzed.right))
          [] j.join_type \in ConcatJoinTypes /\ ~all_left /\ all_right ->
               \* right_child = swap_remove(1)
               BelowLeft(insert_projection_below_single_child(
                             rest(1), analyzed.left, 0),
                         self.children_nodes[2],
                         update_equivalence_conditions(
                             j.on, analyzed.left, EmptyMap),
                         update_non_equivalence_conditions(
                             j.filter, analyzed.right, EmptyMap))
          [] j.join_type \in ConcatJoinTypes /\ all_left /\ ~all_right ->
               \* left_child = swap_remove(1)
               BelowRight(insert_projection_below_single_child(
                              rest(1), analyzed.right, 1),
                          self.children_nodes[2],
                          update_equivalence_conditions(
                              j.on, EmptyMap, analyzed.right),
                          update_non_equivalence_conditions(
                              j.filter, EmptyMap, analyzed.right))
          [] j.join_type \in ConcatJoinTypes /\ all_left /\ all_right ->
               [self EXCEPT !.required_columns = {},
                            !.children_nodes =
                                [i \in DOMAIN @ |-> AllRequired(@[i])]]
          [] j.join_type \in LeftOnlyJoinTypes /\ ~all_left ->
               \* right_child = swap_remove(1)
               BelowLeft(insert_projection_below_single_child(
                             rest(1), analyzed.left, 0),
                         [self.children_nodes[2] EXCEPT
                             !.required_columns = UsedColumns(analyzed.right)],
                         update_equivalence_conditions(
                             j.on, analyzed.left, EmptyMap),
                         update_non_equivalence_conditions(
                             j.filter, analyzed.left, EmptyMap))
          [] j.join_type \in LeftOnlyJoinTypes /\ all_left ->
               [self EXCEPT
                   !.children_nodes[1] = AllRequired(@),
                   !.children_nodes[2].required_columns =
                       UsedColumns(analyzed.right)]
          [] j.join_type \in RightOnlyJoinTypes /\ ~all_right ->
               \* left_child = swap_remove(0)
               BelowRight(insert_projection_below_single_child(
                              rest(0), analyzed.right, 1),
                          [self.children_nodes[1] EXCEPT
                              !.required_columns = UsedColumns(analyzed.left)],
                          update_equivalence_conditions(
                              j.on, EmptyMap, analyzed.right),
                          update_non_equivalence_conditions(
                              j.filter, EmptyMap, analyzed.right))
          [] OTHER ->
               [self EXCEPT
                   !.children_nodes[1].required_columns =
                       UsedColumns(analyzed.left),
                   !.children_nodes[2] = AllRequired(@)]

InsertBelowSidesOfJoin(self0, self, left_size, analyzed, filter_required) ==
    InsertBelowAnalyzedJoin(self0.plan, self, left_size, analyzed,
                            all_columns_required(analyzed.left),
                            all_columns_required(analyzed.right),
                            FilterOutOfBounds(self0, filter_required))

\* The rule shared by the four join kinds.
InsertBelowRequiredJoin(self0, self, left_size, filter_required) ==
    InsertBelowSidesOfJoin(self0, self, left_size,
                           analyze_requirements_of_joins(self, left_size),
                           filter_required)

InsertBelowJoin(self0, shift_right_only, filter_required) ==
    InsertBelowRequiredJoin(
        self0,
        ExtendedWithJoinConditions(self0, Len(schema(self0.plan.children[1])),
                                   shift_right_only, filter_required),
        Len(schema(self0.plan.children[1])),
        filter_required)

try_insert_below_hash_join(self) == InsertBelowJoin(self, TRUE, TRUE)

try_insert_below_nested_loop_join(self) == InsertBelowJoin(self, FALSE, TRUE)

try_insert_below_sort_merge_join(self) == InsertBelowJoin(self, FALSE, FALSE)

try_insert_below_symmetric_hash_join(self) == InsertBelowJoin(self, FALSE, TRUE)

\* ------------------------------------------------------------------------
\* Projections
\* ------------------------------------------------------------------------
Yes(node) == [yes |-> TRUE, node |-> node]

No(node) == [yes |-> FALSE, node |-> node]

\* Checks if the given expression is trivial: a Column or a Literal.
is_expr_trivial(expr) == expr.t = "col" \/ expr.t = "lit"

\* Given the expression set of a projection, checks if the projection
\* causes any renaming or constructs a non-Column physical expression.
all_alias_free_columns(exprs) ==
    \A i \in DOMAIN exprs :
        exprs[i].expr.t = "col" /\ exprs[i].expr.name = exprs[i].alias

\* A variant of caching_projections without the guard, which
\* MergeAvoidsDuplication must tell from it.
caching_projections_never(projection, child_projection) == FALSE

\* True when some column of the child projection is referred to more than
\* once by the projection and its expression is not trivial.
caching_projections(projection, child_projection) ==
    LET refs == UNION {collect_columns(projection.expr[i].expr) :
                          i \in DOMAIN projection.expr}
        count(c) == LET RECURSIVE Sum(_)
                        Sum(i) == IF i = 0 THEN 0
                                  ELSE CountRefs(projection.expr[i].expr, c)
                                           + Sum(i - 1)
                    IN  Sum(Len(projection.expr))
    IN  \E c \in refs :
            /\ count(c) > 1
            /\ ~is_expr_trivial(child_projection.expr[c.index + 1].expr)

\* update_expr with sync_with_child = true: every column of expr is
\* replaced by the child projection's expression at the column's index.
RECURSIVE Substitute(_, _)
Substitute(expr, projected_exprs) ==
    IF expr.t = "col" THEN projected_exprs[expr.index + 1].expr
    ELSE IF expr.t = "bin"
    THEN BinaryExpr(Substitute(expr.l, projected_exprs), expr.op,
                    Substitute(expr.r, projected_exprs))
    ELSE expr

\* A variant of update_expr that leaves the columns as they are, which
\* StackedProjectionsMergeWithColumns must tell from it.
update_expr_unchanged(expr, projected_exprs) ==
    IF collect_columns(expr) = {} THEN None ELSE Some(expr)

\* None when the expression holds no column at all (the rewrite state
\* stays Unchanged), Some(rewritten) otherwise.
update_expr(expr, projected_exprs) ==
    IF collect_columns(expr) = {} THEN None
    ELSE Some(Substitute(expr, projected_exprs))

\* Unifies the projection with its input, which is also a projection.
try_unifying_projections(self) ==
    LET projection == self.plan
        child_projection == self.children_nodes[1].plan
        refs == UNION {collect_columns(projection.expr[i].expr) :
                          i \in DOMAIN projection.expr}
    IN  IF \E c \in refs : c.index >= Len(child_projection.expr)
        THEN Yes(FailNode("panic"))
        ELSE IF caching_projections(projection, child_projection)
        THEN No(self)
        ELSE IF \E i \in DOMAIN projection.expr :
                    ~update_expr(projection.expr[i].expr,
                                 child_projection.expr).some
        THEN No(self)
        ELSE LET projected_exprs ==
                     [i \in DOMAIN projection.expr |->
                         [expr |-> update_expr(projection.expr[i].expr,
                                               child_projection.expr).v,
                          alias |-> projection.expr[i].alias]]
                 new_plan == ProjectionExec_try_new(
                                 projected_exprs, child_projection.children[1])
             IN  Yes(Node(new_plan, self.required_columns,
                          self.schema_mapping,
                          self.children_nodes[1].children_nodes))

\* Tries to remove the projection: all its expressions are columns without
\* aliases, and its input is fully required by the output requirements.
try_remove_projection(self) ==
    LET exprs == self.plan.expr
        projection_columns == [i \in DOMAIN exprs |-> exprs[i].expr]
    IN  IF ~all_alias_free_columns(exprs) THEN No(self)
        ELSE IF \E c \in self.required_columns : c.index >= Len(exprs)
        THEN Yes(FailNode("panic"))
        ELSE LET projection_requires ==
                     {projection_columns[c.index + 1] : c \in self.required_columns}
                 input_columns ==
                     collect_columns_in_plan_schema(self.plan.children[1])
                 new_mapping ==
                     [c \in {d \in self.required_columns :
                                d # projection_columns[d.index + 1]} |->
                         projection_columns[c.index + 1]]
                 replaced_child == self.children_nodes[1]
             IN  IF input_columns \subseteq projection_requires
                 THEN Yes(Node(replaced_child.plan, projection_requires,
                               new_mapping, replaced_child.children_nodes))
                 ELSE No(self)

\* The increasing sequence of the elements of a finite set of numbers.
RECURSIVE SortedSeq(_)
SortedSeq(S) ==
    IF S = {} THEN <<>>
    ELSE LET m == CHOOSE x \in S : \A y \in S : x <= y
         IN  <<m>> \o SortedSeq(S \ {m})

\* If the projection can be rewritten with a narrower schema, it is done
\* so.  The child's requirements are read from the narrowed expression list
\* at the positions of the old requirements.
try_narrow_projection(self) ==
    LET exprs == self.plan.expr
        projection_output_columns ==
            [i \in DOMAIN exprs |-> Column(exprs[i].alias, i - 1)]
        used_indices ==
            SortedSeq({i - 1 : i \in {k \in DOMAIN exprs :
                          projection_output_columns[k] \in self.required_columns}})
        new_projection == [k \in DOMAIN used_indices |-> exprs[used_indices[k] + 1]]
        schema_mapping ==
            [c \in {projection_output_columns[used_indices[k] + 1] :
                       k \in {n \in DOMAIN used_indices : n - 1 # used_indices[n]}} |->
                LET k == CHOOSE n \in DOMAIN used_indices :
                             projection_output_columns[used_indices[n] + 1] = c
                IN  projection_output_columns[k]]
        new_projection_plan ==
            ProjectionExec_try_new(new_projection, self.children_nodes[1].plan)
        new_projection_requires ==
            {GetOr(schema_mapping, col) : col \in self.required_columns}
    IN  IF Len(used_indices) = Len(exprs) THEN No(self)
        ELSE IF IsFail(new_projection_plan)
        THEN Yes(FailNode(new_projection_plan.why))
        ELSE IF \E c \in self.required_columns : c.index >= Len(new_projection)
        THEN Yes(FailNode("panic"))
        ELSE Yes(Node(new_projection_plan, new_projection_requires,
                      schema_mapping,
                      [self.children_nodes EXCEPT ![1].required_columns =
                          UNION {collect_columns(
                                     new_projection[c.index + 1].expr) :
                                 c \in self.required_columns}]))

\* Updates a source provider's projected columns according to the given
\* projection operator's columns; nothing is produced when the source has
\* no projection of its own.
new_projections_for_columns(projection, source) ==
    IF source.some
    THEN [i \in DOMAIN projection |-> source.v[projection[i].index + 1]]
    ELSE <<>>

\* Tries to embed the projection into its input CsvExec.
try_projected_csv(self) ==
    LET projection == self.plan
        csv == projection.children[1]
        projection_columns ==
            [i \in DOMAIN projection.expr |-> projection.expr[i].expr]
    IN  IF ~all_alias_free_columns(projection.expr) THEN No(self)
        ELSE IF csv.projection.some
                /\ \E i \in DOMAIN projection_columns :
                       projection_columns[i].index >= Len(csv.projection.v)
        THEN Yes(FailNode("panic"))
        ELSE Yes(Node(CsvExec(csv.file_schema,
                              Some(new_projections_for_columns(
                                       projection_columns, csv.projection))),
                      {}, EmptyMap, <<>>))

\* ------------------------------------------------------------------------
\* Aggregation
\* ------------------------------------------------------------------------
\* The columns of the group-by expressions, of the argument expressions of
\* the aggregate expressions, and of the filters that are present.
GroupColumns(agg) ==
    UNION {collect_columns(agg.group_expr[i].expr) : i \in DOMAIN agg.group_expr}

AggrColumns(aggr_expr) ==
    UNION {ColumnsOf(aggr_expr[i].expressions) : i \in DOMAIN aggr_expr}

FilterColumns(agg) ==
    UNION {collect_columns(agg.filter_expr[i].v) :
              i \in {k \in DOMAIN agg.filter_expr : agg.filter_expr[k].some}}

\* The state fields of the aggregate expressions as columns behind the
\* group-by columns, numbered in order.
RECURSIVE StateColumns(_, _)
StateColumns(aggr_expr, from) ==
    IF aggr_expr = <<>> THEN {}
    ELSE {Column(Head(aggr_expr).state_fields[k], from + k - 1) :
             k \in DOMAIN Head(aggr_expr).state_fields}
         \cup StateColumns(Tail(aggr_expr),
                           from + Len(Head(aggr_expr).state_fields))

\* AggregateExec applies its own projection: only the aggregate
\* expressions that the upper plans do not use can be removed.
try_insert_below_aggregate(self) ==
    LET agg == self.plan
        group_columns_len == Len(agg.group_expr)
        required_indices == {c.index : c \in self.required_columns}
        Rebuilt(new_plan) ==
            IF IsFail(new_plan) THEN FailNode(new_plan.why)
            ELSE [self EXCEPT
                     !.children_nodes[1].required_columns =
                         GroupColumns(new_plan) \cup AggrColumns(new_plan.aggr_expr),
                     !.plan = new_plan,
                     !.required_columns = {}]
        Used(used) ==
            IF Len(used) # Len(agg.aggr_expr)
            THEN Rebuilt(AggregateExec_try_new(
                             agg.mode, agg.group_expr,
                             [k \in 1..Len(used) |-> agg.aggr_expr[used[k]]],
                             agg.filter_expr, agg.children[1]))
            ELSE IF agg.mode \in {"Final", "FinalPartitioned"}
            THEN [self EXCEPT
                     !.children_nodes[1].required_columns =
                         @ \cup StateColumns(agg.aggr_expr, group_columns_len)
                           \cup GroupColumns(agg) \cup FilterColumns(agg)]
            ELSE [self EXCEPT
                     !.children_nodes[1].required_columns =
                         @ \cup AggrColumns(agg.aggr_expr)
                           \cup GroupColumns(agg) \cup FilterColumns(agg)]
    IN  Used(SortedSeq({i \in DOMAIN agg.aggr_expr :
                           (i - 1) + group_columns_len \in required_indices}))

\* ------------------------------------------------------------------------
\* Windows
\* ------------------------------------------------------------------------
\* True if a column behind the first original_schema_len ones is required.
window_agg_required(original_schema_len, requirements) ==
    \E column \in DOMAIN requirements :
        column.index >= original_schema_len /\ requirements[column]

\* insert_projection_below_window, insert_projection_below_bounded_window:
\* original_schema_len is the length of the schema of the window, so every
\* column of the requirement map is in base and window is empty.  The
\* expressions are collected in the iteration order of a HashMap; they are
\* put in index order here.  Each unused column is counted twice for the
\* mapping.
insert_projection_below_window(self, requirement_map) ==
    LET original_schema_len == Len(schema(self.plan))
        base == Restrict(requirement_map,
                         {c \in DOMAIN requirement_map :
                             c.index < original_schema_len})
        window == Restrict(requirement_map,
                           {c \in DOMAIN requirement_map :
                               c.index >= original_schema_len})
        unused_columns == UnusedColumns(base) \cup UnusedColumns(window)
    IN  [node |-> LET Projected(inserted_projection) ==
                          Node(inserted_projection,
                               IF IsFail(inserted_projection) THEN {}
                               ELSE collect_columns_in_plan_schema(
                                        inserted_projection),
                               EmptyMap, self.children_nodes)
                  IN  Projected(ProjectionExec_try_new(ProjectedExprs(base),
                                                       self.plan.children[1])),
         mapping |->
             [col \in {c \in self.required_columns :
                          SkippedColumns(unused_columns, c) > 0} |->
                 Column(col.name,
                        col.index - 2 * SkippedColumns(unused_columns, col))],
         window |-> window]

\* try_insert_below_window_aggregate and
\* try_insert_below_bounded_window_aggregate: a projection is inserted to
\* narrow the input and the window expressions are narrowed; if no window
\* column is required the window is replaced by its child.
try_insert_below_window_aggregate(self0) ==
    LET w_agg == self0.plan
        self == [self0 EXCEPT
                    !.required_columns =
                        @ \cup UNION {ColumnsOf(w_agg.window_expr[i].expressions) :
                                         i \in DOMAIN w_agg.window_expr}
                          \cup ColumnsOf(w_agg.partition_keys)]
        requirement_map == analyze_requirements(self)
        \* zip with window_usage: the expressions and keys at the positions
        \* of the used entries of window_usage
        Zipped(exprs, usage) ==
            SelectSeq([i \in 1..(IF Len(exprs) < Len(usage) THEN Len(exprs)
                                  ELSE Len(usage)) |->
                          [e |-> exprs[i], used |-> usage[i]]],
                      LAMBDA z : z.used)
        Narrowed(ins, usage) ==
            IF IsFailNode(ins.node) THEN FailNode(ins.node.plan.why)
            ELSE LET Rebuilt(plan) ==
                         Node(plan, collect_columns_in_plan_schema(plan),
                              ins.mapping, <<ins.node>>)
                 IN  Rebuilt(Window_try_new(
                         w_agg.kind,
                         [i \in DOMAIN Zipped(w_agg.window_expr, usage) |->
                             [Zipped(w_agg.window_expr, usage)[i].e EXCEPT
                                 !.expressions = UpdateAll(@, ins.mapping)]],
                         ins.node.plan,
                         [i \in DOMAIN Zipped(w_agg.partition_keys, usage) |->
                             update_column_index(
                                 Zipped(w_agg.partition_keys, usage)[i].e,
                                 ins.mapping)]))
        Inserted(ins) ==
            Narrowed(ins, [i \in DOMAIN SortByIndex(DOMAIN ins.window) |->
                              ins.window[SortByIndex(DOMAIN ins.window)[i]]])
    IN  IF ~all_columns_required(requirement_map)
        THEN IF window_agg_required(Len(schema(w_agg.children[1])),
                                    requirement_map)
             THEN Inserted(insert_projection_below_window(self, requirement_map))
             ELSE [self.children_nodes[1] EXCEPT
                      !.required_columns = UsedColumns(requirement_map)]
        ELSE [self EXCEPT
                 !.children_nodes[1].required_columns =
                     {col \in self.required_columns :
                         col.index < Len(schema(w_agg)) - Len(w_agg.window_expr)}]

\* Every column of the first child is required (FileSinkExec and the
\* operators the rule does not recognize).
RequireAllOfFirstChild(self) ==
    [self EXCEPT !.children_nodes[1].required_columns =
        collect_columns_in_plan_schema(self.children_nodes[1].plan)]

\* If the node plan can be rewritten with a narrower schema, a projection
\* is inserted into its input to do so.
try_projection_insertion(self) ==
    LET kind == self.plan.kind
    IN  CASE kind \in {"ProjectionExec", "CsvExec"} -> FailNode("panic")
          [] kind = "CoalesceBatchesExec" -> try_insert_below_coalesce_batches(self)
          [] kind = "CoalescePartitionsExec" ->
                 try_insert_below_coalesce_partitions(self)
          [] kind = "GlobalLimitExec" -> try_insert_below_global_limit(self)
          [] kind = "LocalLimitExec" -> try_insert_below_local_limit(self)
          [] kind = "FilterExec" -> try_insert_below_filter(self)
          [] kind = "RepartitionExec" -> try_insert_below_repartition(self)
          [] kind = "SortExec" -> try_insert_below_sort(self)
          [] kind = "SortPreservingMergeExec" ->
                 try_insert_below_sort_preserving_merge(self)
          [] kind \in {"UnionExec", "InterleaveExec"} -> try_insert_below_union(self)
          [] kind = "CrossJoinExec" -> try_insert_below_cross_join(self)
          [] kind = "HashJoinExec" -> try_insert_below_hash_join(self)
          [] kind = "NestedLoopJoinExec" -> try_insert_below_nested_loop_join(self)
          [] kind = "SortMergeJoinExec" -> try_insert_below_sort_merge_join(self)
          [] kind = "SymmetricHashJoinExec" ->
                 try_insert_below_symmetric_hash_join(self)
          [] kind = "AggregateExec" ->
                 IF \E i \in DOMAIN self.plan.aggr_expr :
                        ~self.plan.aggr_expr[i].rewritable
                 THEN RequireAllOfFirstChild(self)
                 ELSE try_insert_below_aggregate(self)
          [] kind \in WindowKinds ->
                 IF \E i \in DOMAIN self.plan.window_expr :
                        ~self.plan.window_expr[i].rewritable
                 THEN RequireAllOfFirstChild(self)
                 ELSE try_insert_below_window_aggregate(self)
          [] OTHER -> RequireAllOfFirstChild(self)

\* The last step of optimize_projections: the output requirements of the
\* projection in terms of the projection input are inserted to the child.
InsertChildRequirements(self) ==
    IF \E e \in self.required_columns : e.index >= Len(self.plan.expr)
    THEN FailNode("panic")
    ELSE [self EXCEPT !.children_nodes[1].required_columns =
             UNION {collect_columns(self.plan.expr[e.index + 1].expr) :
                       e \in self.required_columns}]

\* adjust_node_with_requirements is the transform function called while
\* traversing from the root to the leaves; optimize_projections tries the
\* four cases in order: unify, remove, narrow, embed into the source.
RECURSIVE adjust_node_with_requirements(_), optimize_projections(_)
adjust_node_with_requirements(self) ==
    IF Len(self.children_nodes) = 0 THEN self
    ELSE IF self.plan.kind = "ProjectionExec" THEN optimize_projections(self)
    ELSE try_projection_insertion(self)

optimize_projections(self) ==
    LET input_kind == self.plan.children[1].kind
        Embedded(embedded) ==
            IF embedded.yes THEN embedded.node
            ELSE InsertChildRequirements(self)
        Narrowed(narrowed) ==
            IF narrowed.yes THEN narrowed.node
            ELSE Embedded(IF input_kind = "CsvExec"
                          THEN try_projected_csv(self) ELSE No(self))
        Removed(removed) ==
            IF removed.yes
            THEN IF IsFailNode(removed.node) THEN removed.node
                 ELSE adjust_node_with_requirements(removed.node)
            ELSE Narrowed(try_narrow_projection(self))
        Unified(unified) ==
            IF unified.yes
            THEN IF IsFailNode(unified.node) THEN FailNode(unified.node.plan.why)
                 ELSE optimize_projections(unified.node)
            ELSE Removed(try_remove_projection(self))
    IN  Unified(IF input_kind = "ProjectionExec"
                THEN try_unifying_projections(self) ELSE No(self))

\* ------------------------------------------------------------------------
\* Bottom-up: the plans are rebuilt over their new children and the column
\* mappings travel to the upper nodes.
\* ------------------------------------------------------------------------
rewrite_projection(projection, input_plan, mapping) ==
    ProjectionExec_try_new(
        [i \in DOMAIN projection.expr |->
            [expr |-> update_column_index(projection.expr[i].expr, mapping),
             alias |-> projection.expr[i].alias]],
        input_plan)

rewrite_filter(predicate, input_plan, mapping) ==
    FilterExec_try_new(update_column_index(predicate, mapping), input_plan)

rewrite_repartition(partitioning, input_plan, mapping) ==
    RepartitionExec_try_new(
        input_plan,
        IF partitioning.hash
        THEN [partitioning EXCEPT !.exprs = UpdateAll(@, mapping)]
        ELSE partitioning)

\* rewrite_sort and rewrite_sort_preserving_merge
rewrite_sort(sort, input_plan, mapping) ==
    SortLike_new(sort.kind, UpdateAll(sort.expr, mapping), input_plan,
                 sort.param)

\* mapping.iter().find(|(old, _)| old.index() == index): the iteration
\* order of a HashMap is not fixed, so when two keys carry the index either
\* of them may be found; hash_order selects which one.
FindByIndex(mapping, index, hash_order, default) ==
    LET found == {k \in DOMAIN mapping : k.index = index}
        first == CHOOSE k \in found : TRUE
        other == IF found \ {first} = {} THEN first
                 ELSE CHOOSE k \in found \ {first} : TRUE
    IN  IF found = {} THEN default
        ELSE IF hash_order = 1 THEN mapping[first].index
        ELSE mapping[other].index

\* The new ColumnIndex list of a join filter; both arms of the match
\* construct an entry of side Left.
RewriteJoinFilter(filter, mapping, left_size, hash_order) ==
    IF ~filter.some THEN None
    ELSE Some([i \in DOMAIN filter.v |->
                  IF filter.v[i].side = "Left"
                  THEN [index |-> FindByIndex(mapping, filter.v[i].index,
                                              hash_order, filter.v[i].index),
                        side |-> "Left"]
                  ELSE [index |-> FindByIndex(mapping,
                                              filter.v[i].index + left_size,
                                              hash_order, filter.v[i].index),
                        side |-> "Left"]])

\* rewrite_hash_join, rewrite_nested_loop_join, rewrite_sort_merge_join and
\* rewrite_symmetric_hash_join: both columns of a key pair are looked up in
\* the one mapping of the join output.
rewrite_join(join, left_input_plan, right_input_plan, mapping, left_size, hash_order) ==
    Join_try_new(join.kind, left_input_plan, right_input_plan,
                 [i \in DOMAIN join.on |->
                     <<update_column_index(join.on[i][1], mapping),
                       update_column_index(join.on[i][2], mapping)>>],
                 RewriteJoinFilter(join.filter, mapping, left_size, hash_order),
                 join.join_type)

\* The left mapping chained with the right mapping moved by left_size and
\* collected into one map: a later entry replaces an earlier one.
ChainedMapping(left_mapping, right_mapping, left_size) ==
    [k \in {ShiftColumn(c, left_size) : c \in DOMAIN right_mapping} |->
        LET c == CHOOSE c \in DOMAIN right_mapping :
                     ShiftColumn(c, left_size) = k
        IN  ShiftColumn(right_mapping[c], left_size)]
    @@ left_mapping

update_mapping(self, child_mappings) ==
    IF Len(child_mappings) = 0 THEN FailNode("panic")
    ELSE IF DOMAIN self.schema_mapping = {}
    THEN [self EXCEPT !.schema_mapping = child_mappings[1]]
    ELSE [self EXCEPT !.schema_mapping =
             [k \in DOMAIN self.schema_mapping |->
                 GetOr(child_mappings[1], self.schema_mapping[k])]]

ChildPlans(self) ==
    [i \in DOMAIN self.children_nodes |-> self.children_nodes[i].plan]

\* The plan could not be built (Err), otherwise the node with its new plan.
WithPlan(self, plan) ==
    IF IsFail(plan) THEN FailNode(plan.why) ELSE [self EXCEPT !.plan = plan]

\* The projection a FileSinkExec receives below itself when its child
\* carries a mapping: for every position the mapped initial column, else
\* the existing column.
FileSinkProjection(self, mapping, hash_order) ==
    LET existing_columns ==
            SortByIndex(collect_columns_in_plan_schema(self.children_nodes[1].plan))
        initial(idx) ==
            LET found == {k \in DOMAIN mapping : k.index = idx}
                first == CHOOSE k \in found : TRUE
                other == IF found \ {first} = {} THEN first
                         ELSE CHOOSE k \in found \ {first} : TRUE
            IN  IF found = {} THEN existing_columns[idx + 1]
                ELSE IF hash_order = 1 THEN first ELSE other
    IN  ProjectionExec_try_new(
            [i \in DOMAIN existing_columns |->
                [expr |-> initial(i - 1), alias |-> initial(i - 1).name]],
            self.children_nodes[1].plan)

\* Responsible for updating the node's plan with new children and possibly
\* updated column indices, and for transferring the column mapping to the
\* upper nodes.
\* None when an aggregate expression cannot be rebuilt with new argument
\* expressions.
rewrite_aggregate(agg, input_plan, mapping) ==
    IF \E i \in DOMAIN agg.aggr_expr : ~agg.aggr_expr[i].rewritable
    THEN None
    ELSE Some(AggregateExec_try_new(
                  agg.mode,
                  [i \in DOMAIN agg.group_expr |->
                      [expr |-> update_column_index(agg.group_expr[i].expr, mapping),
                       alias |-> agg.group_expr[i].alias]],
                  [i \in DOMAIN agg.aggr_expr |->
                      [agg.aggr_expr[i] EXCEPT
                          !.expressions =
                              [k \in DOMAIN @ |-> update_column_index(@[k], mapping)]]],
                  [i \in DOMAIN agg.filter_expr |->
                      IF agg.filter_expr[i].some
                      THEN Some(update_column_index(agg.filter_expr[i].v, mapping))
                      ELSE None],
                  input_plan))

\* rewrite_window_aggregate, rewrite_bounded_window_aggregate: None when a
\* window expression cannot be rebuilt with new argument expressions.
rewrite_window_aggregate(w_agg, input_plan, mapping) ==
    IF \E i \in DOMAIN w_agg.window_expr : ~w_agg.window_expr[i].rewritable
    THEN None
    ELSE Some(Window_try_new(
                  w_agg.kind,
                  [i \in DOMAIN w_agg.window_expr |->
                      [w_agg.window_expr[i] EXCEPT
                          !.expressions = UpdateAll(@, mapping)]],
                  input_plan,
                  UpdateAll(w_agg.partition_keys, mapping)))

index_updater(self, hash_order) ==
    LET all_mappings == [i \in DOMAIN self.children_nodes |->
                            self.children_nodes[i].schema_mapping]
        kind == self.plan.kind
        children == ChildPlans(self)
        Transfer(plan, mappings) ==
            IF IsFail(plan) THEN FailNode(plan.why)
            ELSE update_mapping([self EXCEPT !.plan = plan], mappings)
        left_size == Len(schema(children[1]))
        new_mapping == ChainedMapping(all_mappings[1], all_mappings[2], left_size)
        joined == rewrite_join(self.plan, children[1], children[2],
                               new_mapping, left_size, hash_order)
    IN  IF \A i \in DOMAIN all_mappings : DOMAIN all_mappings[i] = {}
        THEN WithPlan(self, with_new_children(self.plan, children))
        ELSE CASE kind \in {"CoalesceBatchesExec", "CoalescePartitionsExec",
                            "GlobalLimitExec", "LocalLimitExec", "UnionExec",
                            "InterleaveExec", "CrossJoinExec"} ->
                     Transfer(with_new_children(self.plan, children), all_mappings)
               [] kind = "ProjectionExec" ->
                     WithPlan(self, rewrite_projection(self.plan, children[1],
                                                       all_mappings[1]))
               [] kind = "FilterExec" ->
                     Transfer(rewrite_filter(self.plan.predicate, children[1],
                                             all_mappings[1]), all_mappings)
               [] kind = "RepartitionExec" ->
                     Transfer(rewrite_repartition(self.plan.partitioning,
                                                  children[1], all_mappings[1]),
                              all_mappings)
               [] kind \in {"SortExec", "SortPreservingMergeExec"} ->
                     Transfer(rewrite_sort(self.plan, children[1],
                                           all_mappings[1]), all_mappings)
               [] kind = "HashJoinExec" ->
                     Transfer(joined,
                              IF self.plan.join_type \in ConcatJoinTypes
                              THEN <<Restrict(new_mapping,
                                              {k \in DOMAIN new_mapping :
                                                  k.index < left_size}),
                                     Restrict(new_mapping,
                                              {k \in DOMAIN new_mapping :
                                                  k.index >= left_size})>>
                              ELSE IF self.plan.join_type \in LeftOnlyJoinTypes
                              THEN <<all_mappings[1]>>
                              ELSE <<all_mappings[2]>>)
               [] kind \in {"NestedLoopJoinExec", "SortMergeJoinExec",
                            "SymmetricHashJoinExec"} ->
                     \* both mappings were taken out of all_mappings before
                     \* "all_mappings[0] = ..." stores into the empty vector
                     Transfer(joined, <<>>)
               [] kind = "AggregateExec" ->
                     LET Updated(updated) ==
                             IF ~updated.some THEN self
                             ELSE Transfer(updated.v, all_mappings)
                     IN  Updated(rewrite_aggregate(self.plan, children[1],
                                                   all_mappings[1]))
               [] kind \in WindowKinds ->
                     LET Updated(updated) ==
                             IF ~updated.some THEN self
                             ELSE Transfer(updated.v, all_mappings)
                     IN  Updated(rewrite_window_aggregate(self.plan, children[1],
                                                          all_mappings[1]))
               [] kind = "FileSinkExec" ->
                     LET projection == FileSinkProjection(self, all_mappings[1],
                                                          hash_order)
                         new_child == Node(projection, {}, EmptyMap,
                                           <<self.children_nodes[1]>>)
                     IN  IF IsFail(projection) THEN FailNode(projection.why)
                         ELSE [WithPlan(self, with_new_children(self.plan,
                                                                <<projection>>))
                                  EXCEPT !.children_nodes = <<new_child>>]
               [] OTHER -> FailNode("panic")

\* After the top-down pass, there may be some unnecessary projections
\* surviving; a projection of columns without aliases that keeps every
\* column of its input is removed and its child takes over a mapping.
try_remove_projection_bottom_up(self0) ==
    LET projection == self0.plan
        child_columns == collect_columns_in_plan_schema(projection.children[1])
        projection_columns ==
            [i \in DOMAIN projection.expr |-> projection.expr[i].expr]
        self_mapping == self0.schema_mapping
        self == self0.children_nodes[1]
    IN  IF projection.kind # "ProjectionExec" THEN self0
        ELSE IF ~all_alias_free_columns(projection.expr) THEN self0
        ELSE IF ~(child_columns \subseteq Range(projection_columns)) THEN self0
        ELSE IF DOMAIN self_mapping = {}
        THEN [self EXCEPT !.schema_mapping =
                 MapOfPairs({<<Column(projection_columns[i].name, i - 1),
                               projection_columns[i]>> :
                             i \in {j \in DOMAIN projection_columns :
                                       projection_columns[j].index # j - 1}})]
        ELSE IF \E k \in DOMAIN self_mapping :
                    self_mapping[k].index >= Len(projection_columns)
        THEN FailNode("panic")
        ELSE [self EXCEPT !.schema_mapping =
                 [k \in DOMAIN self_mapping |->
                     Column(self_mapping[k].name,
                            projection_columns[self_mapping[k].index + 1].index)]]

\* The tail of map_children, run once all children of the node have been
\* transformed.
MapChildrenTail(self, hash_order) ==
    LET Removed(updated) ==
            IF IsFailNode(updated) THEN updated
            ELSE try_remove_projection_bottom_up(updated)
    IN  Removed(index_updater(self, hash_order))

\* Ensures that the output schema of po matches the initial requirements;
\* otherwise a projection is added on top of it.
satisfy_initial_schema(po, initial_requirements) ==
    IF collect_columns_in_plan_schema(po.plan) = initial_requirements THEN po
    ELSE LET initial_requirements_vec == SortByIndex(initial_requirements)
             projected_exprs ==
                 [i \in DOMAIN initial_requirements_vec |->
                     LET col == initial_requirements_vec[i]
                     IN  [expr |-> Column(col.name,
                                          GetOr(po.schema_mapping, col).index),
                          alias |-> col.name]]
             final_projection == ProjectionExec_try_new(projected_exprs, po.plan)
         IN  IF IsFail(final_projection) THEN FailNode(final_projection.why)
             ELSE Node(final_projection, initial_requirements, EmptyMap, <<po>>)

\* What get_plan_string shows of a plan: the operators with their
\* expressions; a source shows the names of its projected fields and a
\* join filter shows its expression only.
RECURSIVE Display(_)
Display(p) ==
    LET shown == CASE p.kind = "CsvExec" ->
                         [kind |-> p.kind,
                          projection |-> [i \in DOMAIN schema(p) |->
                                             schema(p)[i].name]]
                   [] p.kind \in JoinKinds ->
                         [kind |-> p.kind, on |-> p.on,
                          join_type |-> p.join_type, filter |-> p.filter.some]
                   [] OTHER -> [p EXCEPT !.children = <<>>]
    IN  <<shown, [i \in DOMAIN p.children |-> Display(p.children[i])]>>

\* crosscheck_helper walks the optimized graph with transform_up, which
\* goes through map_children at every node: the children first, then the
\* tail of map_children on the node, then the two assertions.
RECURSIVE crosscheck_helper(_, _)
crosscheck_helper(context, hash_order) ==
    LET Asserted(node, rebuilt) ==
            IF Len(node.children_nodes) # Len(node.plan.children)
            THEN FailNode("panic")
            ELSE IF Len(node.children_nodes) = 0 THEN node
            ELSE IF IsFail(rebuilt) THEN FailNode(rebuilt.why)
            ELSE IF Display(node.plan) # Display(rebuilt)
            THEN FailNode("panic")
            ELSE node
        Checked(node) ==
            IF IsFailNode(node) THEN node
            ELSE Asserted(node, with_new_children(node.plan, ChildPlans(node)))
        Mapped(children) ==
            IF \E i \in DOMAIN children : IsFailNode(children[i])
            THEN FailNode("err")
            ELSE Checked(MapChildrenTail(
                             [context EXCEPT !.children_nodes = children],
                             hash_order))
    IN  IF Len(context.children_nodes) = 0
        THEN IF Len(context.plan.children) = 0 THEN context ELSE FailNode("panic")
        ELSE Mapped([i \in DOMAIN context.children_nodes |->
                        crosscheck_helper(context.children_nodes[i], hash_order)])

\* ------------------------------------------------------------------------
\* The node of a graph at a path of child positions, and the graph with
\* that node replaced.
\* ------------------------------------------------------------------------
RECURSIVE At(_, _)
At(node, p) ==
    IF p = <<>> THEN node
    ELSE At(node.children_nodes[Head(p)], Tail(p))

RECURSIVE Put(_, _, _)
Put(node, p, new) ==
    IF p = <<>> THEN new
    ELSE [node EXCEPT !.children_nodes[Head(p)] = Put(@, Tail(p), new)]

Parent(p) == SubSeq(p, 1, Len(p) - 1)

\* ------------------------------------------------------------------------
\* The plans handed to the rule.
\* ------------------------------------------------------------------------
\* The longest expression list of a projection of an input plan.
MaxExprs == 2

\* The largest number of branches of a union of an input plan.
MaxBranches == 2

\* The sequences over S of length 1..n.
RECURSIVE SeqsUpTo(_, _)
SeqsUpTo(S, n) ==
    IF n = 0 THEN {}
    ELSE LET shorter == SeqsUpTo(S, n - 1)
         IN  {<<x>> : x \in S} \cup {q \o <<x>> : q \in shorter, x \in S}

TableT == <<Field("a", "Int32"), Field("b", "Int32"), Field("c", "Utf8")>>

TableU == <<Field("a", "Utf8"), Field("b", "Int32")>>

Sources ==
    {CsvExec(TableT, None), CsvExec(TableT, Some(<<0, 1, 2>>)),
     CsvExec(TableT, Some(<<2, 0>>)), CsvExec(TableT, Some(<<0>>)),
     CsvExec(TableU, None), CsvExec(TableU, Some(<<0>>))}

ColumnsOfType(plan, type) ==
    {Column(schema(plan)[i].name, i - 1) :
        i \in {j \in DOMAIN schema(plan) : schema(plan)[j].type = type}}

\* The operators with one input over a plan.
UnaryOver(input) ==
    LET cols == collect_columns_in_plan_schema(input)
        ints == ColumnsOfType(input, "Int32")
    IN  {Plain_new(k, input, 1) :
            k \in {"CoalesceBatchesExec", "CoalescePartitionsExec",
                   "GlobalLimitExec", "LocalLimitExec", "FileSinkExec",
                   "OtherExec"}}
        \cup {FilterExec_try_new(BinaryExpr(c, "=", Literal), input) : c \in ints}
        \cup {RepartitionExec_try_new(input, [hash |-> TRUE, exprs |-> <<c>>]) :
                 c \in cols}
        \cup {RepartitionExec_try_new(input, [hash |-> FALSE, exprs |-> <<>>])}
        \cup {SortLike_new(k, <<c>>, input, 1) :
                 k \in {"SortExec", "SortPreservingMergeExec"}, c \in cols}

\* Unions of 2..MaxBranches equal branches.
UnionsOver(input) ==
    {Union_new(k, [i \in 1..n |-> input]) :
        k \in {"UnionExec", "InterleaveExec"}, n \in 2..MaxBranches}

JoinTypes == ConcatJoinTypes \cup LeftOnlyJoinTypes \cup RightOnlyJoinTypes

\* A join filter over one column of each side.
JoinFilter(left_index, right_index) ==
    Some(<<[index |-> left_index, side |-> "Left"],
           [index |-> right_index, side |-> "Right"]>>)

\* The joins of two plans: the cross join, the nested loop join, which has
\* no key pair, and the three equi-joins on the key pair on, if there is one.
JoinsOver(left, right, on, filters) ==
    {CrossJoinExec_new(left, right)}
    \cup {Join_try_new("NestedLoopJoinExec", left, right, <<>>, f, t) :
             f \in filters, t \in JoinTypes}
    \cup {Join_try_new(k, left, right, on, f, t) :
             k \in JoinKinds \ {"NestedLoopJoinExec"},
             f \in filters, t \in JoinTypes}

Joins ==
    JoinsOver(CsvExec(TableT, Some(<<0, 1, 2>>)),
              CsvExec(TableT, Some(<<0, 1, 2>>)),
              <<<<Column("a", 0), Column("b", 1)>>>>,
              {None, JoinFilter(0, 0), JoinFilter(2, 2)})
    \cup JoinsOver(CsvExec(TableT, Some(<<0>>)), CsvExec(TableU, Some(<<0>>)),
                   <<>>, {None, JoinFilter(0, 0)})

\* The expressions a projection over a plan is made of: its columns under
\* their own name, its first column renamed, the sums of two integer
\* columns, and a literal.
ProjectionExprs(input) ==
    LET cols == collect_columns_in_plan_schema(input)
        ints == ColumnsOfType(input, "Int32")
    IN  {[expr |-> c, alias |-> c.name] : c \in cols}
        \cup {[expr |-> c, alias |-> "x"] : c \in {d \in cols : d.index = 0}}
        \cup {[expr |-> BinaryExpr(p[1], "+", p[2]), alias |-> "s"] :
                 p \in {q \in ints \X ints : q[1].index <= q[2].index}}
        \cup {[expr |-> Literal, alias |-> "l"]}

\* The projections of columns under their own names over a plan.
ColumnProjectionsOver(input) ==
    {ProjectionExec_try_new(e, input) :
        e \in SeqsUpTo({[expr |-> c, alias |-> c.name] :
                           c \in collect_columns_in_plan_schema(input)},
                       MaxExprs)}

ProjectionsOver(input) ==
    {ProjectionExec_try_new(e, input) :
        e \in SeqsUpTo(ProjectionExprs(input), MaxExprs)}

\* The plans below a root projection: the sources, the operators over one
\* source, and the joins of two sources.
Operators == UNION {UnaryOver(s) \cup UnionsOver(s) : s \in Sources} \cup Joins

\* Stacked projections: any projection over a projection of a column, a
\* renamed column, a sum and a literal of a source.
Stacked ==
    LET source == CsvExec(TableT, Some(<<0, 1, 2>>))
        lower == {ProjectionExec_try_new(e, source) :
                     e \in SeqsUpTo(
                         {[expr |-> Column("a", 0), alias |-> "a"],
                          [expr |-> Column("b", 1), alias |-> "x"],
                          [expr |-> BinaryExpr(Column("a", 0), "+", Column("b", 1)),
                           alias |-> "s"],
                          [expr |-> Literal, alias |-> "l"]}, MaxExprs)}
    IN  UNION {ProjectionsOver(l) : l \in lower}

\* Projections over a projection that renames a column or computes a sum.
StackedBelow ==
    LET source == CsvExec(TableT, Some(<<0, 1, 2>>))
        lower == {ProjectionExec_try_new(e, source) :
                     e \in {<<[expr |-> Column("a", 0), alias |-> "a"],
                              [expr |-> Column("b", 1), alias |-> "x"]>>,
                            <<[expr |-> BinaryExpr(Column("a", 0), "+",
                                                   Column("b", 1)),
                               alias |-> "s"],
                              [expr |-> Column("a", 0), alias |-> "a"]>>}}
    IN  UNION {ProjectionsOver(l) : l \in lower}

\* Chains of three projections, and stacked projections below an operator.
Chains == UNION {ColumnProjectionsOver(s) : s \in StackedBelow}

Wrapped ==
    {Plain_new("CoalesceBatchesExec", s, 1) : s \in StackedBelow}
    \cup {SortLike_new("SortExec", <<Column(schema(s)[1].name, 0)>>, s, 1) :
             s \in {t \in StackedBelow : ~IsFail(t)}}

\* An aggregate expression over one column: its name, its argument
\* expressions, the names of its state fields, and whether
\* with_new_expressions can rebuild it.
AggregateExpr(fun, c, rewritable) ==
    [name |-> fun \o "(" \o c.name \o ")", expressions |-> <<c>>,
     state_fields |-> <<fun \o "(" \o c.name \o ")[" \o fun \o "]">>,
     rewritable |-> rewritable]

\* Aggregations grouped by the first column of the input: sums of its Int32
\* columns and a user-defined aggregate that cannot be rebuilt, each with
\* or without a filter on the last Int32 column, in two modes.
AggregatesOver(input) ==
    LET ints == ColumnsOfType(input, "Int32")
        first == CHOOSE c \in collect_columns_in_plan_schema(input) : c.index = 0
        last_int == CHOOSE c \in ints : \A d \in ints : d.index <= c.index
        aggr_exprs == {AggregateExpr("sum", c, TRUE) : c \in ints}
                      \cup {AggregateExpr("udaf", last_int, FALSE)}
        filters == {None, Some(BinaryExpr(last_int, "=", Literal))}
    IN  {AggregateExec_try_new(mode, <<[expr |-> first, alias |-> first.name]>>,
                               aggr_expr, filter_expr, input) :
            mode \in {"Single", "Final"},
            aggr_expr \in SeqsUpTo(aggr_exprs, MaxExprs) \ {<<>>},
            filter_expr \in SeqsUpTo(filters, MaxExprs) \ {<<>>}}

\* Aggregations of a source and of a projection that reorders a source,
\* with as many filters as aggregate expressions.
Aggregates ==
    LET reordered == ProjectionExec_try_new(
                         <<[expr |-> Column("b", 1), alias |-> "b"],
                           [expr |-> Column("a", 0), alias |-> "a"]>>,
                         CsvExec(TableU, None))
    IN  {p \in AggregatesOver(CsvExec(TableT, Some(<<0, 1, 2>>)))
               \cup AggregatesOver(reordered) :
            Len(p.filter_expr) = Len(p.aggr_expr)}

\* Operators that the rule does not recognize: over a projection that
\* reorders a source, and over two inputs.
Others ==
    LET reordered == ProjectionExec_try_new(
                         <<[expr |-> Column("b", 1), alias |-> "b"],
                           [expr |-> Column("a", 0), alias |-> "a"]>>,
                         CsvExec(TableU, None))
    IN  {Plain_new("OtherExec", reordered, 1)}
        \cup {[kind |-> "OtherExec", param |-> 1,
                children |-> <<CsvExec(TableT, None), right>>] :
                 right \in {CsvExec(TableU, None), reordered}}

\* Joins with a projection that reorders a source on one side or on both,
\* so that the children of the join report mappings.
ReorderedJoins ==
    LET source == CsvExec(TableU, None)
        reordered == ProjectionExec_try_new(
                         <<[expr |-> Column("b", 1), alias |-> "b"],
                           [expr |-> Column("a", 0), alias |-> "a"]>>,
                         source)
        filters == {None, JoinFilter(0, 0)}
    IN  JoinsOver(reordered, source,
                  <<<<Column("b", 0), Column("b", 1)>>>>, filters)
        \cup JoinsOver(source, reordered,
                       <<<<Column("b", 1), Column("b", 0)>>>>, filters)
        \cup JoinsOver(reordered, reordered,
                       <<<<Column("b", 0), Column("b", 0)>>>>, filters)

\* A window expression over one column.
WindowExpr(fun, c, rewritable) ==
    [name |-> fun \o "(" \o c.name \o ")", expressions |-> <<c>>,
     rewritable |-> rewritable]

\* Windows over an input: sums over its Int32 columns and a user-defined
\* window function that cannot be rebuilt.
WindowsOver(kind, input, partition_keys) ==
    LET ints == ColumnsOfType(input, "Int32")
        last_int == CHOOSE c \in ints : \A d \in ints : d.index <= c.index
        window_exprs == {WindowExpr("sum", c, TRUE) : c \in ints}
                        \cup {WindowExpr("udwf", last_int, FALSE)}
    IN  {Window_try_new(kind, window_expr, input, partition_keys) :
            window_expr \in SeqsUpTo(window_exprs, MaxExprs) \ {<<>>}}

\* Windows over a source, and over a filter over a projection that renames
\* a column.
Windows ==
    LET source == CsvExec(TableT, Some(<<0, 1, 2>>))
        filtered == FilterExec_try_new(
                        BinaryExpr(Column("x", 1), "=", Literal),
                        ProjectionExec_try_new(
                            <<[expr |-> Column("a", 0), alias |-> "a"],
                              [expr |-> Column("b", 1), alias |-> "x"]>>,
                            source))
    IN  WindowsOver("WindowAggExec", source, <<>>)
        \cup WindowsOver("BoundedWindowAggExec", source, <<Column("c", 2)>>)
        \cup WindowsOver("WindowAggExec", filtered, <<>>)

InputPlans ==
    {p \in Sources \cup Operators \cup Aggregates \cup Others
           \cup ReorderedJoins \cup Windows
           \cup UNION {ColumnProjectionsOver(o) : o \in Windows}
           \cup UNION {ColumnProjectionsOver(o) : o \in Aggregates}
           \cup UNION {ColumnProjectionsOver(o) : o \in Sources \cup Operators}
           \cup UNION {ProjectionsOver(s) : s \in Sources}
           \cup Stacked \cup Chains \cup Wrapped :
        ~IsFail(p)}

\* ------------------------------------------------------------------------
\* CrossJoinStream (physical-plan/src/joins/cross_join.rs).  A batch is a
\* sequence of rows and a row is a sequence of column values.
\* ------------------------------------------------------------------------
num_rows(batch) == Len(batch)

\* StatefulStreamResult::Continue, StatefulStreamResult::Ready(Some(batch))
\* and Err(e), as the three state functions return them.
Continue == [t |-> "Continue"]

Ready(batch) == [t |-> "Ready", batch |-> batch]

Err == [t |-> "Err"]

\* The stream as CrossJoinExec::execute builds it.
NewCrossJoinStream ==
    [state |-> "WaitBuildSide", left_data |-> <<>>, right_batch |-> <<>>,
     left_batch_index |-> 0, right_row_index |-> 0]

\* A variant of collect_build_side that does not look for rows in the left
\* data, which LeftWithoutRowsEndsAtOnce must tell from it.
collect_build_side_unchecked(self, left) ==
    IF ~left.ok THEN [stream |-> self, result |-> Err]
    ELSE [stream |-> [self EXCEPT
                         !.left_data = SelectSeq(left.batches,
                                                 LAMBDA b : num_rows(b) > 0),
                         !.state = "FetchProbeBatch"],
          result |-> Continue]

\* Copies the collected left data into the state and continues with
\* fetching the probe side; ends at once if the left side has no row.
\* left is what left_fut resolved to.
collect_build_side(self, left) ==
    IF ~left.ok THEN [stream |-> self, result |-> Err]
    ELSE IF \A i \in DOMAIN left.batches : num_rows(left.batches[i]) = 0
    THEN [stream |-> [self EXCEPT !.state = "Completed"], result |-> Continue]
    ELSE [stream |-> [self EXCEPT
                         !.left_data = SelectSeq(left.batches,
                                                 LAMBDA b : num_rows(b) > 0),
                         !.state = "FetchProbeBatch"],
          result |-> Continue]

\* A variant of fetch_probe_batch that goes on fetching at the end of the
\* right stream, which StreamTerminates must tell from it.
fetch_probe_batch_never_done(self, polled) ==
    CASE polled.t = "None" -> [stream |-> self, result |-> Continue]
      [] polled.t = "Err" -> [stream |-> self, result |-> Err]
      [] OTHER ->
            IF num_rows(polled.batch) = 0
            THEN [stream |-> self, result |-> Continue]
            ELSE [stream |-> [self EXCEPT !.left_batch_index = 0,
                                          !.right_row_index = 0,
                                          !.right_batch = polled.batch,
                                          !.state = "GenerateResult"],
                  result |-> Continue]

\* A variant of fetch_probe_batch that waits for the build side again at
\* the end of the right stream, which StateDiagram must tell from it.
fetch_probe_batch_restarting(self, polled) ==
    CASE polled.t = "None" ->
            [stream |-> [self EXCEPT !.state = "WaitBuildSide"],
             result |-> Continue]
      [] polled.t = "Err" -> [stream |-> self, result |-> Err]
      [] OTHER ->
            IF num_rows(polled.batch) = 0
            THEN [stream |-> self, result |-> Continue]
            ELSE [stream |-> [self EXCEPT !.left_batch_index = 0,
                                          !.right_row_index = 0,
                                          !.right_batch = polled.batch,
                                          !.state = "GenerateResult"],
                  result |-> Continue]

\* polled is what the right stream returned: None, Some(Ok(batch)) or
\* Some(Err).
fetch_probe_batch(self, polled) ==
    CASE polled.t = "None" ->
            [stream |-> [self EXCEPT !.state = "Completed"], result |-> Continue]
      [] polled.t = "Err" -> [stream |-> self, result |-> Err]
      [] OTHER ->
            IF num_rows(polled.batch) = 0
            THEN [stream |-> self, result |-> Continue]
            ELSE [stream |-> [self EXCEPT !.left_batch_index = 0,
                                          !.right_row_index = 0,
                                          !.right_batch = polled.batch,
                                          !.state = "GenerateResult"],
                  result |-> Continue]

\* The current left batch with a copy of the current right row at the end
\* of each of its rows.
build_batch(self) ==
    [i \in 1..num_rows(self.left_data[self.left_batch_index + 1]) |->
        self.left_data[self.left_batch_index + 1][i]
            \o self.right_batch[self.right_row_index + 1]]

\* A variant of generate_result that pairs a right row with the first left
\* batch only, which CartesianProduct must tell from it.
generate_result_first_batch(self) ==
    IF self.right_row_index < num_rows(self.right_batch)
    THEN [stream |-> [self EXCEPT !.left_batch_index = 0,
                                  !.right_row_index = @ + 1],
          result |-> Ready(build_batch(self))]
    ELSE [stream |-> [self EXCEPT !.state = "FetchProbeBatch"],
          result |-> Continue]

\* If the probe batch has rows that are not paired yet, the next batch of
\* pairs is built; if not, the state goes back to fetching the probe side.
generate_result(self) ==
    IF self.right_row_index < num_rows(self.right_batch)
    THEN [stream |-> [self EXCEPT
                         !.left_batch_index =
                             IF @ = Len(self.left_data) - 1 THEN 0 ELSE @ + 1,
                         !.right_row_index =
                             IF self.left_batch_index = Len(self.left_data) - 1
                             THEN @ + 1 ELSE @],
          result |-> Ready(build_batch(self))]
    ELSE [stream |-> [self EXCEPT !.state = "FetchProbeBatch"],
          result |-> Continue]

\* The inputs of a cross join: at most MaxBatches batches a side, of at
\* most MaxRows rows each.
MaxBatches == 2

MaxRows == 2

\* The batches of the given sizes, their rows numbered from base + 1 on;
\* a size of -1 stands for an error of the input stream.
RECURSIVE BatchesOf(_, _)
BatchesOf(sizes, base) ==
    IF sizes = <<>> THEN <<>>
    ELSE IF Head(sizes) < 0
    THEN <<[t |-> "Err"]>> \o BatchesOf(Tail(sizes), base)
    ELSE <<[t |-> "Ok",
            batch |-> [i \in 1..Head(sizes) |-> <<base + i>>]]>>
         \o BatchesOf(Tail(sizes), base + Head(sizes))

\* What the left future resolves to: the batches of the left input, or
\* the error of its stream.
LeftInputs ==
    {[ok |-> FALSE, batches |-> <<>>]}
    \cup {[ok |-> TRUE,
           batches |-> [i \in DOMAIN sizes |-> BatchesOf(sizes, 0)[i].batch]] :
          sizes \in {<<>>} \cup SeqsUpTo(0..MaxRows, MaxBatches)}

\* The items of the right stream; the right rows are numbered from 11 on.
RightInputs ==
    {BatchesOf(sizes, 10) :
        sizes \in {<<>>} \cup SeqsUpTo(-1..MaxRows, MaxBatches)}

\* ------------------------------------------------------------------------
\* OptimizeProjections::optimize, step by step
\* ------------------------------------------------------------------------
VARIABLES
    input,      \* the plan handed to optimize in the first run
    outputs,    \* the plans returned by the runs finished so far
    root,       \* the graph of ProjectionOptimizer nodes of this run
    path,       \* the position of transform_down, as child positions
    pc,         \* what the run does next
    last,       \* the last step: its name, the node before and after it
    stream,     \* the CrossJoinStream of an executed cross join
    left_fut,   \* what the future of the left side resolves to
    right,      \* the right stream: its items and how many were taken
    polling,    \* poll_next is running
    returned,   \* the items poll_next has returned so far
    ended       \* poll_next has returned the end of the stream

optimizer_vars == <<input, outputs, root, path, pc, last>>

stream_vars == <<stream, left_fut, right, polling, returned, ended>>

vars == <<input, outputs, root, path, pc, last,
          stream, left_fut, right, polling, returned, ended>>

\* No plan is executed while the rule runs.
NotExecuted ==
    /\ stream = NewCrossJoinStream
    /\ left_fut = [ok |-> TRUE, batches |-> <<>>]
    /\ right = [items |-> <<>>, next |-> 1, polled |-> FALSE]
    /\ polling = FALSE
    /\ returned = <<>>
    /\ ended = FALSE

\* The plan the current run was given.
CurrentInput == IF outputs = <<>> THEN input ELSE outputs[Len(outputs)]

initial_requirements == collect_columns_in_plan_schema(CurrentInput)

\* The graph optimize starts from: the default graph whose root requires
\* every column of the plan's schema.
InitialNode(plan) ==
    [new_default(plan) EXCEPT
        !.required_columns = collect_columns_in_plan_schema(plan)]

Init ==
    /\ input \in InputPlans
    /\ outputs = <<>>
    /\ root = InitialNode(input)
    /\ path = <<>>
    /\ pc = "down"
    /\ last = [op |-> "optimize", before |-> root, after |-> root]
    /\ NotExecuted

\* The step taken at the node under transform_down: the node is replaced by
\* what the transform function made of it; the traversal then enters its
\* first child, or returns if it has none.  An Err or a panic ends the run.
Transformed(op, before, after) ==
    /\ last' = [op |-> op, before |-> before, after |-> after]
    /\ IF IsFailNode(after)
       THEN /\ pc' = "failed"
            /\ UNCHANGED <<root, path>>
       ELSE /\ root' = Put(root, path, after)
            /\ IF Len(after.children_nodes) = 0
               THEN pc' = "up" /\ path' = path
               ELSE pc' = "down" /\ path' = path \o <<1>>
    /\ UNCHANGED <<input, outputs>>
    /\ UNCHANGED stream_vars

\* adjust_node_with_requirements on a source provider: no change.
AdjustSource ==
    /\ pc = "down"
    /\ Len(At(root, path).children_nodes) = 0
    /\ Transformed("source", At(root, path),
                   adjust_node_with_requirements(At(root, path)))

\* adjust_node_with_requirements on a projection.
OptimizeProjections ==
    /\ pc = "down"
    /\ Len(At(root, path).children_nodes) # 0
    /\ At(root, path).plan.kind = "ProjectionExec"
    /\ Transformed("optimize_projections", At(root, path),
                   adjust_node_with_requirements(At(root, path)))

\* adjust_node_with_requirements on any other plan.
TryProjectionInsertion ==
    /\ pc = "down"
    /\ Len(At(root, path).children_nodes) # 0
    /\ At(root, path).plan.kind # "ProjectionExec"
    /\ Transformed("try_projection_insertion", At(root, path),
                   adjust_node_with_requirements(At(root, path)))

\* map_children goes on to the next child of the parent.
NextChild ==
    /\ pc = "up"
    /\ path # <<>>
    /\ path[Len(path)] < Len(At(root, Parent(path)).children_nodes)
    /\ path' = [path EXCEPT ![Len(path)] = @ + 1]
    /\ pc' = "down"
    /\ last' = [op |-> "next_child", before |-> At(root, path),
                after |-> At(root, path)]
    /\ UNCHANGED <<input, outputs, root>>
    /\ UNCHANGED stream_vars

\* Every child of the parent is transformed: map_children updates the
\* parent with index_updater and try_remove_projection_bottom_up.
MapChildren ==
    /\ pc = "up"
    /\ path # <<>>
    /\ path[Len(path)] = Len(At(root, Parent(path)).children_nodes)
    /\ LET Mapped(before, after) ==
               /\ last' = [op |-> "map_children", before |-> before,
                           after |-> after]
               /\ IF IsFailNode(after)
                  THEN pc' = "failed" /\ UNCHANGED <<root, path>>
                  ELSE /\ root' = Put(root, Parent(path), after)
                       /\ path' = Parent(path)
                       /\ pc' = "up"
       IN  \E hash_order \in 1..2 :
               Mapped(At(root, Parent(path)),
                      MapChildrenTail(At(root, Parent(path)), hash_order))
    /\ UNCHANGED <<input, outputs>>
    /\ UNCHANGED stream_vars

\* transform_down has returned: the initial schema is restored if needed.
SatisfyInitialSchema ==
    /\ pc = "up"
    /\ path = <<>>
    /\ LET Satisfied(after) ==
               /\ last' = [op |-> "satisfy_initial_schema", before |-> root,
                           after |-> after]
               /\ IF IsFailNode(after)
                  THEN pc' = "failed" /\ root' = root
                  ELSE pc' = "crosscheck" /\ root' = after
       IN  Satisfied(satisfy_initial_schema(root, initial_requirements))
    /\ UNCHANGED <<input, outputs, path>>
    /\ UNCHANGED stream_vars

\* crosscheck_helper on a clone of the graph, then the plan is returned.
Crosscheck ==
    /\ pc = "crosscheck"
    /\ LET Checked(checked) ==
               /\ last' = [op |-> "crosscheck_helper", before |-> root,
                           after |-> checked]
               /\ IF IsFailNode(checked)
                  THEN pc' = "failed" /\ outputs' = outputs
                  ELSE pc' = "done" /\ outputs' = Append(outputs, root.plan)
       IN  \E hash_order \in 1..2 :
               Checked(crosscheck_helper(root, hash_order))
    /\ UNCHANGED <<input, root, path>>
    /\ UNCHANGED stream_vars

\* The rule is run once more, on the plan it returned.
OptimizeAgain ==
    /\ pc = "done"
    /\ Len(outputs) = 1
    /\ root' = InitialNode(outputs[1])
    /\ path' = <<>>
    /\ pc' = "down"
    /\ last' = [op |-> "optimize", before |-> root', after |-> root']
    /\ UNCHANGED <<input, outputs>>
    /\ UNCHANGED stream_vars

Next ==
    \/ AdjustSource
    \/ OptimizeProjections
    \/ TryProjectionInsertion
    \/ NextChild
    \/ MapChildren
    \/ SatisfyInitialSchema
    \/ Crosscheck
    \/ OptimizeAgain

Spec == Init /\ [][Next]_vars

\* ------------------------------------------------------------------------
\* CrossJoinStream::poll_next, state by state
\* ------------------------------------------------------------------------
\* A cross join is executed: the stream is built over its two inputs.  The
\* rule is not running.
StreamInit ==
    /\ input = CsvExec(TableT, None)
    /\ outputs = <<>>
    /\ root = InitialNode(input)
    /\ path = <<>>
    /\ pc = "executed"
    /\ last = [op |-> "execute", before |-> root, after |-> root]
    /\ stream = NewCrossJoinStream
    /\ left_fut \in LeftInputs
    /\ \E items \in RightInputs :
          right = [items |-> items, next |-> 1, polled |-> FALSE]
    /\ polling = FALSE
    /\ returned = <<>>
    /\ ended = FALSE

\* The consumer polls the stream; it stops at the first error.
PollNext ==
    /\ ~polling
    /\ \A i \in DOMAIN returned : returned[i].t # "Err"
    /\ polling' = TRUE
    /\ UNCHANGED <<stream, left_fut, right, returned, ended>>
    /\ UNCHANGED optimizer_vars

\* poll_next returns Poll::Pending: an input is not ready.
Pending ==
    /\ polling' = FALSE
    /\ UNCHANGED <<stream, returned, ended>>

\* handle_state!: Continue goes round the loop of poll_next_impl once more,
\* a batch or an error is returned to the consumer.
HandleState(step) ==
    /\ stream' = step.stream
    /\ CASE step.result.t = "Continue" ->
               polling' = TRUE /\ UNCHANGED <<returned, ended>>
         [] step.result.t = "Ready" ->
               /\ polling' = FALSE
               /\ returned' = Append(returned, [t |-> "Ok",
                                                batch |-> step.result.batch])
               /\ ended' = ended
         [] OTHER ->
               /\ polling' = FALSE
               /\ returned' = Append(returned, [t |-> "Err"])
               /\ ended' = ended

\* poll_next_impl in state WaitBuildSide.
WaitBuildSide ==
    /\ polling
    /\ stream.state = "WaitBuildSide"
    /\ \/ Pending
       \/ HandleState(collect_build_side(stream, left_fut))
    /\ UNCHANGED <<left_fut, right>>
    /\ UNCHANGED optimizer_vars

\* What the right stream returns when it is polled and ready.
RightItem ==
    IF right.next > Len(right.items) THEN [t |-> "None"]
    ELSE right.items[right.next]

\* poll_next_impl in state FetchProbeBatch.
FetchProbeBatch ==
    /\ polling
    /\ stream.state = "FetchProbeBatch"
    /\ \/ /\ Pending
          /\ right' = [right EXCEPT !.polled = TRUE]
       \/ /\ HandleState(fetch_probe_batch(stream, RightItem))
          /\ right' = [right EXCEPT
                          !.polled = TRUE,
                          !.next = IF @ > Len(right.items) THEN @ ELSE @ + 1]
    /\ UNCHANGED left_fut
    /\ UNCHANGED optimizer_vars

\* poll_next_impl in state GenerateResult.
GenerateResult ==
    /\ polling
    /\ stream.state = "GenerateResult"
    /\ HandleState(generate_result(stream))
    /\ UNCHANGED <<left_fut, right>>
    /\ UNCHANGED optimizer_vars

\* poll_next_impl in state Completed: Poll::Ready(None).
Completed ==
    /\ polling
    /\ stream.state = "Completed"
    /\ polling' = FALSE
    /\ ended' = TRUE
    /\ UNCHANGED <<stream, left_fut, right, returned>>
    /\ UNCHANGED optimizer_vars

StreamNext ==
    \/ PollNext
    \/ WaitBuildSide
    \/ FetchProbeBatch
    \/ GenerateResult
    \/ Completed

StreamSpec == StreamInit /\ [][StreamNext]_vars

\* The left future resolves: poll_next_impl in state WaitBuildSide finds
\* the build side ready.
BuildSideResolves ==
    /\ polling
    /\ stream.state = "WaitBuildSide"
    /\ HandleState(collect_build_side(stream, left_fut))
    /\ UNCHANGED <<left_fut, right>>
    /\ UNCHANGED optimizer_vars

\* The right stream yields: poll_next_impl in state FetchProbeBatch finds
\* the next item, or the end, of the right stream ready.
ProbeSideYields ==
    /\ polling
    /\ stream.state = "FetchProbeBatch"
    /\ HandleState(fetch_probe_batch(stream, RightItem))
    /\ right' = [right EXCEPT
                    !.polled = TRUE,
                    !.next = IF @ > Len(right.items) THEN @ ELSE @ + 1]
    /\ UNCHANGED left_fut
    /\ UNCHANGED optimizer_vars

\* The stream with a consumer that keeps polling and inputs that are
\* pending finitely often only: a poll that is possible is made, an input
\* that is polled again and again is ready at some poll, and
\* poll_next_impl goes on in the states that wait for no input.
StreamLiveSpec ==
    /\ StreamInit
    /\ [][StreamNext]_vars
    /\ WF_vars(PollNext)
    /\ SF_vars(BuildSideResolves)
    /\ SF_vars(ProbeSideYields)
    /\ WF_vars(GenerateResult)
    /\ WF_vars(Completed)

\* ------------------------------------------------------------------------
\* What a plan computes, for the properties below: every output column of
\* a plan is traced to the source columns it is made of.  A source is
\* named by its position below the operators with several inputs, which
\* the rule never moves.
\* ------------------------------------------------------------------------
\* The expression with every column replaced by what the input column at
\* its index is made of; a column outside the input has no meaning.
RECURSIVE Resolve(_, _)
Resolve(expr, made_of) ==
    IF expr.t = "col"
    THEN IF expr.index < Len(made_of) THEN made_of[expr.index + 1]
         ELSE [t |-> "outside"]
    ELSE IF expr.t = "bin"
    THEN BinaryExpr(Resolve(expr.l, made_of), expr.op, Resolve(expr.r, made_of))
    ELSE expr

RECURSIVE MadeOf(_, _)
MadeOf(p, at) ==
    LET child(i) == MadeOf(p.children[i],
                           IF Len(p.children) > 1 THEN at \o <<i>> ELSE at)
    IN  CASE p.kind = "CsvExec" ->
                [i \in DOMAIN schema(p) |->
                    [t |-> "source", at |-> at,
                     index |-> IF p.projection.some THEN p.projection.v[i]
                               ELSE i - 1]]
          [] p.kind = "ProjectionExec" ->
                [i \in DOMAIN p.expr |-> Resolve(p.expr[i].expr, child(1))]
          [] p.kind \in {"UnionExec", "InterleaveExec"} ->
                [i \in DOMAIN child(1) |->
                    [t |-> "union",
                     of |-> [c \in DOMAIN p.children |->
                                Resolve(Column("", i - 1), child(c))]]]
          [] p.kind \in PassthroughKinds -> child(1)
          [] p.kind = "CrossJoinExec" -> child(1) \o child(2)
          [] p.kind \in JoinKinds ->
                IF p.join_type \in ConcatJoinTypes THEN child(1) \o child(2)
                ELSE IF p.join_type \in LeftOnlyJoinTypes THEN child(1)
                ELSE child(2)
          [] p.kind = "AggregateExec" ->
                \* a group-by column, or an aggregate of its arguments over
                \* the rows that pass its filter
                [i \in DOMAIN p.group_expr |->
                    Resolve(p.group_expr[i].expr, child(1))]
                \o [i \in DOMAIN p.aggr_expr |->
                       [t |-> "aggregate", name |-> p.aggr_expr[i].name,
                        of |-> [k \in DOMAIN p.aggr_expr[i].expressions |->
                                   Resolve(p.aggr_expr[i].expressions[k], child(1))],
                        filter |-> IF i \in DOMAIN p.filter_expr
                                      /\ p.filter_expr[i].some
                                   THEN Some(Resolve(p.filter_expr[i].v, child(1)))
                                   ELSE None]]
          [] p.kind \in WindowKinds ->
                \* the columns of the input, then the window functions of
                \* their arguments over the partitions
                child(1)
                \o [i \in DOMAIN p.window_expr |->
                       [t |-> "window", name |-> p.window_expr[i].name,
                        of |-> [k \in DOMAIN p.window_expr[i].expressions |->
                                   Resolve(p.window_expr[i].expressions[k], child(1))],
                        keys |-> [k \in DOMAIN p.partition_keys |->
                                     Resolve(p.partition_keys[k], child(1))]]]
          [] OTHER -> <<>>

\* The operators of a plan other than its projections and column
\* selections, each with its own expressions traced to the sources.
RECURSIVE Operations(_, _)
Operations(p, at) ==
    LET next(i) == IF Len(p.children) > 1 THEN at \o <<i>> ELSE at
        below == [i \in DOMAIN p.children |-> Operations(p.children[i], next(i))]
        made_of(i) == MadeOf(p.children[i], next(i))
        traced(exprs) == [i \in DOMAIN exprs |-> Resolve(exprs[i], made_of(1))]
        operation(param, exprs) ==
            [kind |-> p.kind, param |-> param, exprs |-> exprs, below |-> below]
    IN  CASE p.kind = "CsvExec" -> operation(<<>>, <<>>)
          [] p.kind = "ProjectionExec" \/ p.kind \in WindowKinds -> below[1]
          [] p.kind = "FilterExec" ->
                operation(<<>>, <<Resolve(p.predicate, made_of(1))>>)
          [] p.kind = "RepartitionExec" ->
                operation(<<>>, traced(p.partitioning.exprs))
          [] p.kind \in {"SortExec", "SortPreservingMergeExec"} ->
                operation(<<>>, traced(p.expr))
          [] p.kind \in JoinKinds ->
                operation(
                    <<p.join_type>>,
                    [i \in DOMAIN p.on |->
                        BinaryExpr(Resolve(p.on[i][1], made_of(1)), "=",
                                   Resolve(p.on[i][2], made_of(2)))]
                    \o IF p.filter.some
                       THEN [i \in DOMAIN p.filter.v |->
                                Resolve(Column("", p.filter.v[i].index),
                                        made_of(IF p.filter.v[i].side = "Left"
                                                THEN 1 ELSE 2))]
                       ELSE <<>>)
          [] p.kind = "AggregateExec" ->
                operation(<<p.mode>>,
                          traced([i \in DOMAIN p.group_expr |-> p.group_expr[i].expr]))
          [] OTHER -> operation(<<>>, <<>>)

\* The plan given to the run that has just returned, and the plan returned.
Given == IF Len(outputs) = 1 THEN input ELSE outputs[Len(outputs) - 1]

Returned == outputs[Len(outputs)]

\* ------------------------------------------------------------------------
\* Properties of OptimizeProjections::optimize
\* ------------------------------------------------------------------------
\* A projection directly on a projection.
Stk(p) == p.kind = "ProjectionExec" /\ p.children[1].kind = "ProjectionExec"

\* The number of references to the input column at index k in an expression.
RECURSIVE References(_, _)
References(e, k) ==
    IF e.t = "col" THEN (IF e.index = k THEN 1 ELSE 0)
    ELSE IF e.t = "bin" THEN References(e.l, k) + References(e.r, k)
    ELSE 0

RECURSIVE ReferencesIn(_, _)
ReferencesIn(exprs, k) ==
    IF exprs = <<>> THEN 0
    ELSE References(Head(exprs).expr, k) + ReferencesIn(Tail(exprs), k)

\* The duplication guard: the upper projection refers more than once to a
\* column for which the lower projection computes something.
GuardTrips(upper, lower) ==
    \E k \in 0..(Len(lower.expr) - 1) :
        /\ ReferencesIn(upper.expr, k) > 1
        /\ lower.expr[k + 1].expr.t = "bin"

\* The number of computations (operator applications) in an expression, and
\* in the projections of a plan.
RECURSIVE ComputationsOf(_)
ComputationsOf(e) ==
    IF e.t = "bin" THEN 1 + ComputationsOf(e.l) + ComputationsOf(e.r) ELSE 0

RECURSIVE ComputationsIn(_)
ComputationsIn(exprs) ==
    IF exprs = <<>> THEN 0
    ELSE ComputationsOf(Head(exprs).expr) + ComputationsIn(Tail(exprs))

RECURSIVE SumOver(_)
SumOver(counts) ==
    IF counts = <<>> THEN 0 ELSE Head(counts) + SumOver(Tail(counts))

RECURSIVE Computations(_)
Computations(p) ==
    (IF p.kind = "ProjectionExec" THEN ComputationsIn(p.expr) ELSE 0)
    + SumOver([i \in DOMAIN p.children |-> Computations(p.children[i])])

\* C1: the plan optimize returns has the schema of the plan it was given:
\* the same column names and types in the same order.
SchemaPreserved == pc = "done" => schema(Returned) = schema(Given)

\* C2: in the plan optimize returns, every column reference of every
\* operator is within its input and denotes the source column it denoted in
\* the plan given, and so does every output column.
ColumnRemovalSound ==
    pc = "done" =>
        /\ Operations(Returned, <<>>) = Operations(Given, <<>>)
        /\ MadeOf(Returned, <<>>) = MadeOf(Given, <<>>)

ConditionColumns(j, side) ==
    {j.on[i][side].index : i \in DOMAIN j.on}
    \cup (IF j.filter.some
          THEN {j.filter.v[i].index :
                   i \in {k \in DOMAIN j.filter.v :
                             j.filter.v[k].side =
                                 (IF side = 1 THEN "Left" ELSE "Right")}}
          ELSE {})

Indices(cols) == {c.index : c \in cols}

\* C4: after the top-down step on a semi or anti join of any join kind, the
\* required columns of the child that is not part of the join output hold
\* every column of that child the key pairs or the filter refer to.
InvisibleSideRequirements ==
    (/\ last.op = "try_projection_insertion"
     /\ last.before.plan.kind \in JoinKinds
     /\ last.before.plan.join_type \in LeftOnlyJoinTypes \cup RightOnlyJoinTypes
     /\ ~IsFailNode(last.after))
    => LET j == last.before.plan
           side == IF j.join_type \in LeftOnlyJoinTypes THEN 2 ELSE 1
       IN  ConditionColumns(j, side) \subseteq
               Indices(last.after.children_nodes[side].required_columns)

\* C5: optimize applied to a plan it has returned returns that plan again.
Idempotent == (pc = "done" /\ Len(outputs) = 2) => outputs[2] = outputs[1]

\* The column-selection list of a source; a source without one reads every
\* column of the file in order.
Selection(csv) ==
    IF csv.projection.some THEN csv.projection.v
    ELSE [i \in 1..Len(csv.file_schema) |-> i - 1]

\* C6: the rule on a projection of unaliased column references directly on
\* a source returns the source alone, with a column-selection list holding,
\* for each projected expression in order, the index of its column in the
\* file schema, whether or not the source had a selection list before.
PushedIntoSource ==
    (/\ last.op = "optimize_projections"
     /\ last.before.plan.kind = "ProjectionExec"
     /\ last.before.plan.children[1].kind = "CsvExec"
     /\ \A i \in DOMAIN last.before.plan.expr :
           /\ last.before.plan.expr[i].expr.t = "col"
           /\ last.before.plan.expr[i].expr.name = last.before.plan.expr[i].alias)
    => LET projection == last.before.plan
           source == projection.children[1]
       IN  /\ last.after.plan.kind = "CsvExec"
           /\ last.after.plan.projection =
                  Some([i \in DOMAIN projection.expr |->
                           Selection(source)[projection.expr[i].expr.index + 1]])

\* The expression with every column reference at index k replaced by the
\* k-th expression of the lower projection.
RECURSIVE Replaced(_, _)
Replaced(e, lower) ==
    IF e.t = "col" THEN lower[e.index + 1].expr
    ELSE IF e.t = "bin"
    THEN [e EXCEPT !.l = Replaced(e.l, lower), !.r = Replaced(e.r, lower)]
    ELSE e

\* One projection over the grandchild in place of upper over lower.
Merged(upper, lower) ==
    [upper EXCEPT
        !.expr = [i \in DOMAIN upper.expr |->
                     [expr |-> Replaced(upper.expr[i].expr, lower.expr),
                      alias |-> upper.expr[i].alias]],
        !.children = lower.children]

\* The node of the rule with the pair at its root replaced by the merged
\* projection.
MergedNode(node) ==
    Node(Merged(node.plan, node.plan.children[1]), node.required_columns,
         node.schema_mapping, node.children_nodes[1].children_nodes)

EveryExprHasColumn(projection) ==
    \A i \in DOMAIN projection.expr :
        \E k \in 0..(Len(projection.children[1].expr) - 1) :
            References(projection.expr[i].expr, k) > 0

\* C7 as stated: whenever the guard does not trip on a projection directly
\* on a projection, the rule replaces the pair by the merged projection and
\* goes on with it.
StackedProjectionsMerge ==
    (/\ last.op = "optimize_projections"
     /\ Stk(last.before.plan)
     /\ ~GuardTrips(last.before.plan, last.before.plan.children[1]))
    => last.after = optimize_projections(MergedNode(last.before))

\* C7, amended: when the guard does not trip and every expression of the
\* upper projection refers to a column, the rule replaces the pair by the
\* merged projection and goes on with it, so that a pair is left only where
\* the guard trips or an upper expression refers to no column.
StackedProjectionsMergeWithColumns ==
    (/\ last.op = "optimize_projections"
     /\ Stk(last.before.plan)
     /\ ~GuardTrips(last.before.plan, last.before.plan.children[1])
     /\ EveryExprHasColumn(last.before.plan))
    => /\ last.after = optimize_projections(MergedNode(last.before))
       /\ (~IsFailNode(last.after) /\ Stk(last.after.plan))
          => \/ GuardTrips(last.after.plan, last.after.plan.children[1])
             \/ ~EveryExprHasColumn(last.after.plan)

\* C7 happens: a chain of three projections has collapsed to one projection
\* on the source.
ChainCollapsed ==
    /\ last.op = "optimize_projections"
    /\ Stk(last.before.plan)
    /\ Stk(last.before.plan.children[1])
    /\ ~GuardTrips(last.before.plan, last.before.plan.children[1])
    /\ EveryExprHasColumn(last.before.plan)
    /\ last.after.plan.kind = "ProjectionExec"
    /\ last.after.plan.children[1].kind = "CsvExec"
    /\ last.after.plan.expr =
           Merged(Merged(last.before.plan, last.before.plan.children[1]),
                  last.before.plan.children[1].children[1]).expr

\* The expressions of an operator that keeps the columns of its input.
OwnExprs(p) ==
    CASE p.kind = "FilterExec" -> <<p.predicate>>
      [] p.kind = "RepartitionExec" -> p.partitioning.exprs
      [] OTHER -> p.expr

\* Filter, hash repartition, sort and sort-preserving merge.
IsExtending(p) ==
    \/ p.kind \in {"FilterExec", "SortExec", "SortPreservingMergeExec"}
    \/ p.kind = "RepartitionExec" /\ p.partitioning.hash

\* The input columns a node keeps: those its parent requires and those its
\* own expressions refer to.
Kept(n) ==
    Indices(n.required_columns)
    \cup {k \in 0..(Len(schema(n.plan.children[1])) - 1) :
             \E i \in DOMAIN OwnExprs(n.plan) :
                 References(OwnExprs(n.plan)[i], k) > 0}

InputIndices(p) == 0..(Len(schema(p)) - 1)

\* The expression with every column reference moved down by the number of
\* dropped columns of a smaller index.
RECURSIVE Shifted(_, _)
Shifted(e, dropped) ==
    IF e.t = "col"
    THEN [e EXCEPT !.index = @ - Cardinality({d \in dropped : d < e.index})]
    ELSE IF e.t = "bin"
    THEN [e EXCEPT !.l = Shifted(e.l, dropped), !.r = Shifted(e.r, dropped)]
    ELSE e

WithOwnShifted(p, dropped) ==
    CASE p.kind = "FilterExec" -> [p EXCEPT !.predicate = Shifted(@, dropped)]
      [] p.kind = "RepartitionExec" ->
            [p EXCEPT !.partitioning.exprs =
                [i \in DOMAIN @ |-> Shifted(@[i], dropped)]]
      [] OTHER -> [p EXCEPT !.expr = [i \in DOMAIN @ |-> Shifted(@[i], dropped)]]

\* The projection of the columns kept, in ascending order, over a plan.
Pruning(child, kept) ==
    [kind |-> "ProjectionExec",
     expr |-> [i \in 1..Cardinality(kept) |->
                  LET k == SortedSeq(kept)[i]
                  IN  [expr |-> Column(schema(child)[k + 1].name, k),
                       alias |-> schema(child)[k + 1].name]],
     children |-> <<child>>]

\* C8: the top-down step on a filter, hash repartition, sort or
\* sort-preserving merge keeps below it exactly the columns its parent
\* requires and its own expressions refer to: if no input column is outside
\* them the operator stays and requires them of its child, otherwise a
\* projection of them in ascending order is put below it and the
\* operator's own column references move down by the number of dropped
\* columns of a smaller index.
ExtendingPassthrough ==
    (last.op = "try_projection_insertion" /\ IsExtending(last.before.plan))
    => LET p == last.before.plan
           child == p.children[1]
           kept == Kept(last.before)
           dropped == InputIndices(child) \ kept
       IN  IF dropped = {}
           THEN /\ last.after.plan = p
                /\ Indices(last.after.children_nodes[1].required_columns) = kept
           ELSE last.after.plan =
                    [WithOwnShifted(p, dropped) EXCEPT
                        !.children = <<Pruning(child, kept)>>]

\* C8 happens: a column before the one the operator refers to was dropped.
OwnExpressionShifted ==
    /\ last.op = "try_projection_insertion"
    /\ IsExtending(last.before.plan)
    /\ last.after.plan.children[1].kind = "ProjectionExec"
    /\ OwnExprs(last.after.plan) # OwnExprs(last.before.plan)

\* The branches of every union of a plan have the same schema.
RECURSIVE UnionsAligned(_)
UnionsAligned(p) ==
    /\ p.kind \in {"UnionExec", "InterleaveExec"}
       => \A i \in DOMAIN p.children :
              schema(p.children[i]) = schema(p.children[1])
    /\ \A i \in DOMAIN p.children : UnionsAligned(p.children[i])

Needed(n, side) ==
    LET left_size == Len(schema(n.plan.children[1]))
        required == Indices(n.required_columns)
    IN  (IF side = 1 THEN {i \in required : i < left_size}
         ELSE {i - left_size : i \in {k \in required : k >= left_size}})
        \cup ConditionColumns(n.plan, side)

\* C10: the top-down step on an Inner, Left, Right or Full equi-join of
\* which both sides have columns that neither the parent, a key pair nor
\* the filter refers to puts below each side the projection of exactly the
\* columns referred to, in ascending order.
EquiJoinSidesPruned ==
    (/\ last.op = "try_projection_insertion"
     /\ last.before.plan.kind \in JoinKinds \ {"NestedLoopJoinExec"}
     /\ last.before.plan.join_type \in ConcatJoinTypes
     /\ \A side \in 1..2 :
           InputIndices(last.before.plan.children[side])
               \ Needed(last.before, side) # {}
     /\ ~IsFailNode(last.after))
    => \A side \in 1..2 :
           last.after.plan.children[side] =
               Pruning(last.before.plan.children[side],
                       Needed(last.before, side))

\* The side of a join was pruned by the step: a projection of columns of
\* the old input stands below the join on that side.
SidePruned(before, after, side) ==
    /\ after.plan.children[side] # before.plan.children[side]
    /\ after.plan.children[side].kind = "ProjectionExec"
    /\ after.plan.children[side].children[1] = before.plan.children[side]

\* The columns of a side that the step removed.
RemovedOf(before, after, side) ==
    IF SidePruned(before, after, side)
    THEN InputIndices(before.plan.children[side])
             \ {after.plan.children[side].expr[i].expr.index :
                   i \in DOMAIN after.plan.children[side].expr}
    ELSE {}

SideNumber(side) == IF side = "Left" THEN 1 ELSE 2

\* C11: when the top-down step on a join with a filter prunes a side,
\* every entry of the filter's column-index table keeps its side, and its
\* index goes down by the number of removed columns of its own side with a
\* smaller index (by nothing on a side that was not pruned).
FilterIndicesFollowPruning ==
    (/\ last.op = "try_projection_insertion"
     /\ last.before.plan.kind \in JoinKinds
     /\ last.before.plan.filter.some
     /\ ~IsFailNode(last.after)
     /\ last.after.plan.kind \in JoinKinds
     /\ \E side \in 1..2 : SidePruned(last.before, last.after, side))
    => LET old == last.before.plan.filter.v
           new == last.after.plan.filter.v
       IN  /\ last.after.plan.filter.some
           /\ DOMAIN new = DOMAIN old
           /\ \A i \in DOMAIN old :
                 /\ new[i].side = old[i].side
                 /\ new[i].index =
                        old[i].index
                        - Cardinality(
                              {r \in RemovedOf(last.before, last.after,
                                               SideNumber(old[i].side)) :
                                  r < old[i].index})

NonExtendingKinds ==
    {"CoalesceBatchesExec", "CoalescePartitionsExec", "LocalLimitExec",
     "GlobalLimitExec"}

\* C15: the top-down step on a CoalesceBatchesExec, CoalescePartitionsExec,
\* LocalLimitExec or GlobalLimitExec hands the required columns to the
\* child unchanged if every output column is required; otherwise it puts
\* the projection of exactly the required columns below the operator and
\* rebuilds the operator over it with its own parameters.
NonExtendingPassthrough ==
    (last.op = "try_projection_insertion"
     /\ last.before.plan.kind \in NonExtendingKinds)
    => LET p == last.before.plan
           child == p.children[1]
           kept == Indices(last.before.required_columns)
       IN  IF InputIndices(child) \subseteq kept
           THEN /\ last.after.plan = p
                /\ last.after.children_nodes[1].required_columns =
                       last.before.required_columns
           ELSE last.after.plan = [p EXCEPT !.children = <<Pruning(child, kept)>>]

\* The columns of a side of a two-input node that its parent requires, as
\* positions of that side: the required columns are split at the left
\* input's column count.
RequiredOfSide(n, side) ==
    LET left_size == Len(schema(n.plan.children[1]))
        required == Indices(n.required_columns)
    IN  IF side = 1 THEN {i \in required : i < left_size}
        ELSE {i - left_size : i \in {k \in required : k >= left_size}}

\* C16: the top-down step on a cross join puts a projection below a side
\* if and only if some column of that side is not required, each side on
\* its own; the projection holds the required columns of the side.
CrossJoinSidesIndependent ==
    (/\ last.op = "try_projection_insertion"
     /\ last.before.plan.kind = "CrossJoinExec"
     /\ ~IsFailNode(last.after))
    => \A side \in 1..2 :
           IF InputIndices(last.before.plan.children[side])
                  \subseteq RequiredOfSide(last.before, side)
           THEN last.after.plan.children[side] = last.before.plan.children[side]
           ELSE last.after.plan.children[side] =
                    Pruning(last.before.plan.children[side],
                            RequiredOfSide(last.before, side))

\* The columns of a side of a join that are needed: those the parent
\* requires, read against the sides that make up the join's output, and
\* those the key pairs and the filter refer to.
NeededOfJoinSide(n, side) ==
    LET j == n.plan
        visible == IF j.join_type \in ConcatJoinTypes
                   THEN RequiredOfSide(n, side)
                   ELSE IF (j.join_type \in LeftOnlyJoinTypes) = (side = 1)
                   THEN Indices(n.required_columns)
                   ELSE {}
    IN  visible \cup ConditionColumns(j, side)

SideNeedsPruning(n, side) ==
    InputIndices(n.plan.children[side]) \ NeededOfJoinSide(n, side) # {}

\* The child node is the old child of that side or a projection put over it.
ChildKeptOrPruned(before, after, side) ==
    /\ after.plan.children[side] = after.children_nodes[side].plan
    /\ \/ after.children_nodes[side].plan = before.plan.children[side]
       \/ /\ after.children_nodes[side].plan.kind = "ProjectionExec"
          /\ after.children_nodes[side].plan.children[1] =
                 before.plan.children[side]
          /\ after.children_nodes[side].children_nodes =
                 <<[before.children_nodes[side] EXCEPT !.required_columns =
                       after.children_nodes[side].children_nodes[1]
                           .required_columns]>>

\* C17: when exactly one side of a hash, nested-loop, sort-merge or
\* symmetric hash join has a column that is not needed, the top-down step
\* does not fail and returns a join of the same kind with two child nodes,
\* the left child or a projection over it first, the right child or a
\* projection over it second.
OneSidedPruningCompletes ==
    (/\ last.op = "try_projection_insertion"
     /\ last.before.plan.kind \in JoinKinds
     /\ SideNeedsPruning(last.before, 1) # SideNeedsPruning(last.before, 2))
    => /\ ~IsFailNode(last.after)
       /\ last.after.plan.kind = last.before.plan.kind
       /\ Len(last.after.children_nodes) = 2
       /\ \A side \in 1..2 :
             ChildKeptOrPruned(last.before, last.after, side)

\* C18: for a RightSemi or RightAnti join of any of the four kinds the
\* parent's required columns are positions of the right child: when every
\* right column is required by the parent, a key pair or the filter, the
\* top-down step leaves the join as it is and requires of the left child
\* the columns of the key pairs and of the filter only.
RightOnlyRequirements ==
    (/\ last.op = "try_projection_insertion"
     /\ last.before.plan.kind \in JoinKinds
     /\ last.before.plan.join_type \in RightOnlyJoinTypes
     /\ ~SideNeedsPruning(last.before, 2))
    => /\ ~IsFailNode(last.after)
       /\ last.after.plan = last.before.plan
       /\ Indices(last.after.children_nodes[1].required_columns) =
              ConditionColumns(last.before.plan, 1)
       /\ Indices(last.after.children_nodes[2].required_columns) =
              InputIndices(last.before.plan.children[2])

\* The top-down step has rebuilt an aggregate: every aggregate expression
\* can be rebuilt, and the parent does not require some aggregate output.
AggregateRebuilt ==
    /\ last.op = "try_projection_insertion"
    /\ last.before.plan.kind = "AggregateExec"
    /\ \A i \in DOMAIN last.before.plan.aggr_expr :
           last.before.plan.aggr_expr[i].rewritable
    /\ \E i \in DOMAIN last.before.plan.aggr_expr :
           (i - 1) + Len(last.before.plan.group_expr)
               \notin Indices(last.before.required_columns)
    /\ ~IsFailNode(last.after)

\* The positions of the aggregate expressions that the parent requires, in
\* increasing order.
Surviving(n) ==
    SortedSeq({i \in DOMAIN n.plan.aggr_expr :
                  (i - 1) + Len(n.plan.group_expr) \in Indices(n.required_columns)})

\* C19: when the top-down step rebuilds an aggregate without the aggregate
\* expressions that are not required, the columns required of its child
\* are exactly those of the group-by expressions, of the surviving
\* aggregate expressions and of the filter expressions.
AggregateChildRequirements ==
    AggregateRebuilt
    => /\ last.after.plan.aggr_expr =
              [k \in DOMAIN Surviving(last.before) |->
                  last.before.plan.aggr_expr[Surviving(last.before)[k]]]
       /\ last.after.children_nodes[1].required_columns =
              UNION {collect_columns(last.after.plan.group_expr[i].expr) :
                        i \in DOMAIN last.after.plan.group_expr}
              \cup UNION {ColumnsOf(last.after.plan.aggr_expr[i].expressions) :
                             i \in DOMAIN last.after.plan.aggr_expr}
              \cup UNION {collect_columns(last.after.plan.filter_expr[i].v) :
                             i \in {k \in DOMAIN last.after.plan.filter_expr :
                                       last.after.plan.filter_expr[k].some}}

\* C20: when the top-down step rebuilds an aggregate and a surviving
\* aggregate column moves to a lower position, the schema mapping of the
\* aggregate node maps the column at its old position to the column at
\* its new position.
MovedAggregateColumnsMapped ==
    AggregateRebuilt
    => \A k \in DOMAIN Surviving(last.before) :
           LET i == Surviving(last.before)[k]
               group_len == Len(last.before.plan.group_expr)
               name == last.before.plan.aggr_expr[i].name
           IN  i # k
               => /\ Column(name, group_len + i - 1)
                         \in DOMAIN last.after.schema_mapping
                  /\ last.after.schema_mapping[Column(name, group_len + i - 1)] =
                         Column(name, group_len + k - 1)

\* The positions of the outputs of a projection that its parent requires,
\* in increasing order.
KeptOutputs(n) ==
    SortedSeq({i \in DOMAIN n.plan.expr :
                  Column(n.plan.expr[i].alias, i - 1) \in n.required_columns})

\* The top-down step on a projection has come to narrowing: the projection
\* is neither merged with a projection below it nor removed, and its
\* parent requires a strict subset of its outputs.
NarrowingApplies ==
    /\ last.op = "optimize_projections"
    /\ last.before.plan.kind = "ProjectionExec"
    /\ last.before.plan.children[1].kind = "ProjectionExec"
           => ~try_unifying_projections(last.before).yes
    /\ ~try_remove_projection(last.before).yes
    /\ Len(KeptOutputs(last.before)) < Len(last.before.plan.expr)

\* C23: narrowing a projection to a strict subset of its outputs completes;
\* the rebuilt projection holds the required expressions in their order,
\* the schema mapping takes the old position of each kept output that
\* moved to its new position and has no other entry, and the child is
\* required the columns of the kept expressions.
NarrowedProjection ==
    NarrowingApplies
    => LET kept == KeptOutputs(last.before)
           exprs == last.before.plan.expr
       IN  /\ ~IsFailNode(last.after)
           /\ last.after.plan.kind = "ProjectionExec"
           /\ last.after.plan.expr = [k \in DOMAIN kept |-> exprs[kept[k]]]
           /\ {<<c.index, last.after.schema_mapping[c].index>> :
                  c \in DOMAIN last.after.schema_mapping} =
                  {<<kept[k] - 1, k - 1>> : k \in {n \in DOMAIN kept : kept[n] # n}}
           /\ last.after.children_nodes[1].required_columns =
                  UNION {collect_columns(exprs[kept[k]].expr) : k \in DOMAIN kept}

\* The operators that have no rule of their own, and the file sink.
FallbackKinds == {"OtherExec", "FileSinkExec"}

\* C24: the top-down step on an operator without a rule of its own, or on
\* a file sink, requires every column of each of its children.
FallbackRequiresEverything ==
    (/\ last.op = "try_projection_insertion"
     /\ last.before.plan.kind \in FallbackKinds)
    => /\ ~IsFailNode(last.after)
       /\ last.after.plan = last.before.plan
       /\ \A i \in DOMAIN last.after.children_nodes :
              last.after.children_nodes[i].required_columns =
                  collect_columns_in_plan_schema(last.before.plan.children[i])

\* C25: neither the top-down step nor the bottom-up step on an operator
\* without a rule of its own fails, whatever mappings its children report.
UnrecognizedNeverFails ==
    (/\ last.op \in {"try_projection_insertion", "map_children"}
     /\ last.before.plan.kind = "OtherExec")
    => ~IsFailNode(last.after)

\* A mapping that moves some column.
NotIdentity(mapping) == \E c \in DOMAIN mapping : mapping[c] # c

\* C26: the driver puts a projection on top of the rewritten root if and
\* only if the schema mapping of the root is not the identity.
CorrectiveProjectionIffMapped ==
    last.op = "satisfy_initial_schema"
    => (NotIdentity(last.before.schema_mapping) <=> last.after # last.before)

\* The nodes of a graph.
RECURSIVE NodesOf(_)
NodesOf(node) ==
    {node} \cup UNION {NodesOf(node.children_nodes[i]) :
                          i \in DOMAIN node.children_nodes}

\* C27: at every point of the traversal, no schema mapping of a node of
\* the graph maps a column to itself.
NoSelfMapping ==
    \A node \in NodesOf(root) :
        \A c \in DOMAIN node.schema_mapping : node.schema_mapping[c] # c

\* The operators with two children.
TwoChildKinds == JoinKinds \cup {"CrossJoinExec"}

\* The bottom-up step on an operator with two children, one of which at
\* least reports a mapping.
TwoChildrenMapped ==
    /\ last.op = "map_children"
    /\ last.before.plan.kind \in TwoChildKinds
    /\ \E i \in 1..2 : DOMAIN last.before.children_nodes[i].schema_mapping # {}

\* The mapping of a child with keys and values moved by an offset.
Offset(mapping, by) ==
    [k \in {Column(c.name, c.index + by) : c \in DOMAIN mapping} |->
        LET c == CHOOSE c \in DOMAIN mapping : Column(c.name, c.index + by) = k
        IN  Column(mapping[c].name, mapping[c].index + by)]

\* What a two-child operator has to expose of the mappings of its children.
ExposedMapping(n) ==
    LET left_mapping == n.children_nodes[1].schema_mapping
        right_mapping == n.children_nodes[2].schema_mapping
        left_size == Len(schema(n.children_nodes[1].plan))
    IN  IF n.plan.kind = "CrossJoinExec" \/ n.plan.join_type \in ConcatJoinTypes
        THEN left_mapping @@ Offset(right_mapping, left_size)
        ELSE IF n.plan.join_type \in LeftOnlyJoinTypes THEN left_mapping
        ELSE right_mapping

\* C28: the bottom-up step on an operator with two children that report
\* mappings exposes both mappings, the right one moved by the number of
\* columns of the left child, when the output holds both sides, the left
\* mapping for LeftSemi and LeftAnti and the right one for RightSemi and
\* RightAnti; a mapping the node holds already is composed with it.
JoinExposesChildMappings ==
    TwoChildrenMapped
    => /\ ~IsFailNode(last.after)
       /\ last.after.schema_mapping =
              IF DOMAIN last.before.schema_mapping = {}
              THEN ExposedMapping(last.before)
              ELSE [k \in DOMAIN last.before.schema_mapping |->
                       GetOr(ExposedMapping(last.before),
                             last.before.schema_mapping[k])]

\* The position a mapping of a child gives to the column of the child at
\* a position: the position itself if the mapping has no entry for it.
MovedTo(mapping, index) ==
    IF \E k \in DOMAIN mapping : k.index = index
    THEN mapping[CHOOSE k \in DOMAIN mapping : k.index = index].index
    ELSE index

\* No two entries of a mapping are for one position.
OneEntryForEachPosition(mapping) ==
    \A k1, k2 \in DOMAIN mapping : k1.index = k2.index => k1 = k2

\* C29: when the bottom-up step rewrites the filter of a join through the
\* mappings of the children, every entry of the column index table keeps
\* its side, and its new index is the new position of the column in the
\* child of that side.
JoinFilterSidesKept ==
    (/\ TwoChildrenMapped
     /\ last.before.plan.kind \in JoinKinds
     /\ last.before.plan.filter.some
     /\ \A i \in 1..2 :
            OneEntryForEachPosition(last.before.children_nodes[i].schema_mapping)
     /\ ~IsFailNode(last.after))
    => /\ last.after.plan.filter.some
       /\ DOMAIN last.after.plan.filter.v = DOMAIN last.before.plan.filter.v
       /\ \A i \in DOMAIN last.before.plan.filter.v :
              LET old == last.before.plan.filter.v[i]
                  new == last.after.plan.filter.v[i]
                  side == IF old.side = "Left" THEN 1 ELSE 2
              IN  /\ new.side = old.side
                  /\ new.index =
                         MovedTo(last.before.children_nodes[side].schema_mapping,
                                 old.index)

\* The top-down step on a window all of whose expressions can be rebuilt.
WindowStep ==
    /\ last.op = "try_projection_insertion"
    /\ last.before.plan.kind \in WindowKinds
    /\ \A i \in DOMAIN last.before.plan.window_expr :
           last.before.plan.window_expr[i].rewritable

\* The positions of the input a window needs: those its parent requires
\* and those its window expressions and partition keys refer to.
WindowInputNeeds(n) ==
    LET input_len == Len(schema(n.plan.children[1]))
    IN  {i \in Indices(n.required_columns) : i < input_len}
        \cup Indices(UNION {ColumnsOf(n.plan.window_expr[i].expressions) :
                               i \in DOMAIN n.plan.window_expr})
        \cup Indices(ColumnsOf(n.plan.partition_keys))

\* A generated window column is required.
WindowColumnRequired(n) ==
    \E i \in Indices(n.required_columns) :
        i >= Len(schema(n.plan.children[1]))

\* The columns of its input that a node replacing a window refers to or
\* has to output.
ReplacementNeeds(n) ==
    IF n.plan.kind = "ProjectionExec"
    THEN UNION {collect_columns(n.plan.expr[c.index + 1].expr) :
                   c \in n.required_columns}
    ELSE n.required_columns \cup ColumnsOf(OwnExprs(n.plan))

\* C21: when the top-down step replaces a window none of whose generated
\* columns is required by its child, the children of the replacement are
\* required, before the traversal enters them, every column the
\* replacement refers to or has to output.
DeletedWindowChildRequirements ==
    (/\ WindowStep
     /\ ~WindowColumnRequired(last.before)
     /\ WindowInputNeeds(last.before)
            # InputIndices(last.before.plan.children[1])
     /\ ~IsFailNode(last.after))
    => /\ last.after.plan = last.before.plan.children[1]
       /\ Indices(last.after.required_columns) = WindowInputNeeds(last.before)
       /\ \A i \in DOMAIN last.after.children_nodes :
              ReplacementNeeds(last.after)
                  \subseteq last.after.children_nodes[i].required_columns

\* C22: when a generated window column is required and some column of the
\* input is not needed, the top-down step puts below the window a
\* projection of the needed columns of the input, in index order, and the
\* columns in the window expressions and partition keys are moved down by
\* the number of removed columns before them.
WindowPruned ==
    (/\ WindowStep
     /\ WindowColumnRequired(last.before)
     /\ WindowInputNeeds(last.before)
            # InputIndices(last.before.plan.children[1]))
    => LET kept == WindowInputNeeds(last.before)
           dropped == InputIndices(last.before.plan.children[1]) \ kept
       IN  /\ ~IsFailNode(last.after)
           /\ last.after.plan.kind = last.before.plan.kind
           /\ last.after.plan.children[1] =
                  Pruning(last.before.plan.children[1], kept)
           /\ \A i \in DOMAIN last.after.plan.window_expr :
                  \E k \in DOMAIN last.before.plan.window_expr :
                      last.after.plan.window_expr[i].expressions =
                          [e \in DOMAIN last.before.plan.window_expr[k].expressions |->
                              Shifted(last.before.plan.window_expr[k].expressions[e],
                                      dropped)]
           /\ last.after.plan.partition_keys =
                  [i \in DOMAIN last.before.plan.partition_keys |->
                      Shifted(last.before.plan.partition_keys[i], dropped)]

\* ------------------------------------------------------------------------
\* Properties of CrossJoinStream
\* ------------------------------------------------------------------------
\* The rows of a sequence of batches, in order.
RECURSIVE RowsOf(_)
RowsOf(batches) ==
    IF batches = <<>> THEN <<>> ELSE Head(batches) \o RowsOf(Tail(batches))

LeftRows == RowsOf(left_fut.batches)

RightRows ==
    RowsOf([i \in DOMAIN right.items |->
               IF right.items[i].t = "Ok" THEN right.items[i].batch ELSE <<>>])

EmittedRows ==
    RowsOf([i \in DOMAIN returned |->
               IF returned[i].t = "Ok" THEN returned[i].batch ELSE <<>>])

NoInputError ==
    /\ left_fut.ok
    /\ \A i \in DOMAIN right.items : right.items[i].t = "Ok"

\* C12: when no input fails, the rows the stream has emitted when it ends
\* are the pairs of a left row and a right row, each pair once, the left
\* row's columns before the right row's.
CartesianProduct ==
    (ended /\ NoInputError)
    => /\ Len(EmittedRows) = Len(LeftRows) * Len(RightRows)
       /\ \A l \in DOMAIN LeftRows, r \in DOMAIN RightRows :
             Cardinality({k \in DOMAIN EmittedRows :
                             EmittedRows[k] = LeftRows[l] \o RightRows[r]}) = 1

\* C12 happens: two left batches were paired with the rows of two right
\* batches.
ProductOfBatches ==
    /\ ended
    /\ NoInputError
    /\ Len(stream.left_data) = 2
    /\ Len(right.items) = 2
    /\ Len(LeftRows) >= 3
    /\ Len(RightRows) >= 3

LeftWithoutRows ==
    /\ left_fut.ok
    /\ \A i \in DOMAIN left_fut.batches : Len(left_fut.batches[i]) = 0

\* C13: when the left side holds no row, the stream is in WaitBuildSide
\* until it is in Completed, the right stream is never polled, nothing is
\* emitted, and the poll that found the left side returns the end of the
\* stream.
LeftWithoutRowsEndsAtOnce ==
    LeftWithoutRows
    => /\ stream.state \in {"WaitBuildSide", "Completed"}
       /\ ~right.polled
       /\ returned = <<>>
       /\ (stream.state = "Completed" /\ ~polling) => ended

\* C13 happens: the left side had batches without rows, the right side had
\* rows, and the stream has ended.
EndedOnEmptyBatches ==
    /\ LeftWithoutRows
    /\ Len(left_fut.batches) = 2
    /\ Len(RightRows) > 0
    /\ ended

StateChanges ==
    {<<"WaitBuildSide", "FetchProbeBatch">>, <<"WaitBuildSide", "Completed">>,
     <<"FetchProbeBatch", "GenerateResult">>, <<"FetchProbeBatch", "Completed">>,
     <<"GenerateResult", "GenerateResult">>,
     <<"GenerateResult", "FetchProbeBatch">>, <<"GenerateResult", "Completed">>}

\* C14: the stream starts in WaitBuildSide and its state changes only
\* along the arrows of the documented diagram; it never returns to
\* WaitBuildSide and never leaves Completed.
StateDiagram ==
    /\ stream.state = "WaitBuildSide"
    /\ [][stream.state' # stream.state
             => <<stream.state, stream.state'>> \in StateChanges]_vars

\* C14 happens: the stream went through every state and completed after
\* fetching a second probe batch.
DiagramWalked ==
    /\ stream.state = "Completed"
    /\ Len(stream.left_data) > 0
    /\ Len(returned) > 0
    /\ right.next = 3

\* C30: if the left future resolves without error and the right stream
\* yields its batches without error and then ends, and the consumer keeps
\* polling, the stream reaches Completed and returns the end of the stream.
StreamTerminates ==
    NoInputError ~> (stream.state = "Completed" /\ ended)

\* C30 happens: the stream has ended after MaxBatches batches of the right
\* stream were paired with rows of the left side.
TerminatedAfterAllBatches ==
    /\ NoInputError
    /\ ended
    /\ stream.state = "Completed"
    /\ Len(right.items) = MaxBatches
    /\ right.next > Len(right.items)
    /\ Len(EmittedRows) > 0

====
